---- MODULE Spec2Model ----
(***************************************************************************)
(* AegisRAG: the vector index managers (FaissManager, ImageFaissManager),  *)
(* their two companion files on disk, the metadata store and ingest().     *)
(*                                                                         *)
(* One behaviour follows one manager and its file pair; `kind` says which  *)
(* of the two classes it is.  The two managers share no state (separate    *)
(* files, separate locks), so each is checked on its own.                  *)
(***************************************************************************)
EXTENDS Integers, Sequences, FiniteSets, TLC

VARIABLES
    kind,            \* "text" (FaissManager) or "image" (ImageFaissManager)
    index,           \* self.index: [d |-> dimension, vecs |-> the vectors held]
    chunk_ids,       \* self.chunk_ids: the id list
    chunk_ids_set,   \* self._chunk_ids_set: the membership set
    diskIndex,       \* the file at index_path
    diskMeta,        \* the file at meta_path
    store,           \* the chunks table: a function from the stored chunk_ids to rows
    ret,             \* the last completed call: its inputs, result and pre-state
    proc,            \* "up" while the process runs, "down" after a crash
    lastSaved,       \* the file pair as the last completed save()/reset() left it
    lock,            \* self._lock: "free" or the thread that holds it
    adder,           \* a thread inside add(): its position and locals
    searcher,        \* a thread inside search(): its position and locals
    stream,          \* a /api/stream-query request: its generators and events
    sessions,        \* chat_sessions, chat_sessions_lock and the requests appending
    call             \* one call of a function wrapped by retry / async_retry

vars == <<kind, index, chunk_ids, chunk_ids_set, diskIndex, diskMeta, store,
          ret, proc, lastSaved, lock, adder, searcher, stream, sessions, call>>

(***************************************************************************)
(* Bounds of the model.                                                    *)
(***************************************************************************)
MaxVec == 3          \* most vectors one index holds
MaxBatch == 2        \* longest batch handed to add / save_chunks / ingest
MaxTopK == 2         \* largest top_k of a search
MaxConcVec == 2      \* most vectors the index holds while threads race

(***************************************************************************)
(* Program constants.                                                      *)
(***************************************************************************)
TEXT_DIM == 384
IMAGE_DIM == 512
DISTANCE_THRESHOLD == 1

Kinds == {"text", "image"}
Dims == {TEXT_DIM, IMAGE_DIM}

\* A file is absent, torn (truncated by an interrupted write) or holds data.
File(data) == [st |-> "ok", data |-> data]
NoFile(data) == [st |-> "absent", data |-> data]
TornFile(data) == [st |-> "torn", data |-> data]

Range(s) == {s[i] : i \in 1..Len(s)}
NoDuplicates(ids) == \A i, j \in 1..Len(ids) : ids[i] = ids[j] => i = j

\* The chunks the extractors can hand over.  Two of them share the id "a"
\* with different payloads.
\* page_number and timestamp are Python values: None, an int, a float or a
\* str.  Numbers are kept in tenths, so that 2.5 has n = 25 and the int 2
\* and the float 2.0 both have n = 20.
Null == [t |-> "null", n |-> 0, s |-> ""]
IntVal(k) == [t |-> "int", n |-> 10 * k, s |-> ""]
RealVal(n) == [t |-> "real", n |-> n, s |-> ""]
TextVal(s) == [t |-> "text", n |-> 0, s |-> s]

FullChunk(id, text, st, sf, pn, ts) ==
    [chunk_id |-> id, text |-> text, source_type |-> st, source_file |-> sf,
     page_number |-> pn, timestamp |-> ts]

Chunk(id, text, st) == FullChunk(id, text, st, "f", Null, Null)
Chunks == { Chunk("a", "ta", "pdf"),
            Chunk("a", "", "pdf"),
            Chunk("b", "tb", "video_frame") }

Batches == UNION {[1..n -> Chunks] : n \in 1..MaxBatch}

\* The batches handed to add() directly: one chunk per id.
AddBatches == UNION {[1..n -> {c \in Chunks : c.text # ""}] : n \in 1..MaxBatch}

\* ingestion_manager.py: embedding_dim=384 for the text manager, 512 for the
\* image manager.
EmbeddingDim(k) == IF k = "text" THEN TEXT_DIM ELSE IMAGE_DIM

(***************************************************************************)
(* Embeddings.  A raw embedding is a direction and a magnitude;            *)
(* faiss.normalize_L2 rescales it to magnitude 1.  The embedder is a       *)
(* deterministic function of the chunk.                                    *)
(***************************************************************************)
Dirs == 0..2
Embed(id) == [dir |-> IF id = "a" THEN 0 ELSE 2, mag |-> 2]
normalize_L2(v) == [v EXCEPT !.mag = 1]
Abs(x) == IF x < 0 THEN -x ELSE x
\* L2 distance of two stored/normalised vectors.
Distance(u, v) == Abs(u.dir - v.dir) + Abs(u.mag - v.mag)

EmptyIndex(d) == [d |-> d, vecs |-> <<>>]
NoIndexFile == NoFile(EmptyIndex(0))
NoMetaFile == NoFile(<<>>)
TornIndexFile == TornFile(EmptyIndex(0))
TornMetaFile == TornFile(<<>>)
ntotal(ix) == Len(ix.vecs)

(***************************************************************************)
(* faiss.IndexFlatL2                                                       *)
(***************************************************************************)
\* index.add(x): the binding asserts x.shape[1] == index.d before it appends
\* anything, so a batch of the wrong dimension raises and adds nothing.
IndexAdd(ix, xs) == [ix EXCEPT !.vecs = @ \o xs]

\* index.search(q, k): the k nearest stored vectors, nearest first, ties in
\* storage order; idx is 0-based, and the answer is padded with idx = -1 when
\* fewer than k vectors are held.
RECURSIVE IndexSearch(_, _, _, _)
IndexSearch(ix, q, cand, k) ==
    IF k = 0 THEN <<>>
    ELSE IF cand = {} THEN <<[idx |-> -1, dist |-> 99]>> \o IndexSearch(ix, q, {}, k - 1)
    ELSE LET key(p) == Distance(ix.vecs[p], q) * (MaxVec + 2) + p
             best == CHOOSE p \in cand : \A r \in cand : key(p) <= key(r)
         IN  <<[idx |-> best - 1, dist |-> Distance(ix.vecs[best], q)]>>
               \o IndexSearch(ix, q, cand \ {best}, k - 1)

\* index.search(q, k) as the binding runs it: it asserts q.shape[1] == index.d.
FaissIndexSearch(ix, q, k) ==
    IF q.dim # ix.d THEN [err |-> "AssertionError", hits |-> <<>>]
    ELSE [err |-> "none", hits |-> IndexSearch(ix, normalize_L2(q.v), 1..ntotal(ix), k)]

(***************************************************************************)
(* __init__ / _load                                                        *)
(***************************************************************************)
Exists(f) == f.st # "absent"

\* Mutant: the constructor never calls _load.
ConstructNoLoad(k, fi, fm) ==
    [err |-> "none", out |-> "empty", index |-> EmptyIndex(EmbeddingDim(k)),
     chunk_ids |-> <<>>, chunk_ids_set |-> {}]

\* The manager the constructor yields on the files fi (index_path) and fm
\* (meta_path).  read_index and pickle.load raise on a truncated file.
Construct(k, fi, fm) ==
    IF Exists(fi) /\ Exists(fm)
    THEN IF fi.st = "torn" \/ fm.st = "torn"
         THEN [err |-> "LoadError", out |-> "none", index |-> EmptyIndex(EmbeddingDim(k)),
               chunk_ids |-> <<>>, chunk_ids_set |-> {}]
         ELSE [err |-> "none", out |-> "loaded", index |-> fi.data,
               chunk_ids |-> fm.data, chunk_ids_set |-> Range(fm.data)]
    ELSE [err |-> "none", out |-> "empty", index |-> EmptyIndex(EmbeddingDim(k)),
          chunk_ids |-> <<>>, chunk_ids_set |-> {}]

\* The two files a completed save() leaves: write_index(self.index, index_path)
\* and pickle.dump(self.chunk_ids) into meta_path.
SaveFiles(ix, ids) == <<File(ix), File(ids)>>

(***************************************************************************)
(* add                                                                     *)
(***************************************************************************)
\* Mutant: the membership test is dropped.
NewChunksNoFilter(batch, set) == batch

\* The filter loop: a chunk is kept unless its id is in _chunk_ids_set, which
\* the loop does not update.
NewChunks(batch, set) == SelectSeq(batch, LAMBDA c : c.chunk_id \notin set)

Ids(batch) == [i \in 1..Len(batch) |-> batch[i].chunk_id]

\* Mutant: index.add is given the whole embeddings array instead of
\* new_embeddings.
AddAllEmbeddings(ix, ids, set, batch, dim) ==
    LET new == NewChunks(batch, set)
        embeddings == [i \in 1..Len(batch) |-> normalize_L2(Embed(batch[i].chunk_id))]
    IN  IF new = <<>>
        THEN [err |-> "none", out |-> 0, index |-> ix, chunk_ids |-> ids,
              chunk_ids_set |-> set]
        ELSE IF dim # ix.d
        THEN [err |-> "AssertionError", out |-> 0, index |-> ix, chunk_ids |-> ids,
              chunk_ids_set |-> set]
        ELSE [err |-> "none", out |-> Len(new), index |-> IndexAdd(ix, embeddings),
              chunk_ids |-> ids \o Ids(new),
              chunk_ids_set |-> set \cup Range(Ids(new))]

\* add(embeddings, chunks) with embeddings[i] = Embed(chunks[i]) of dimension dim.
Add(ix, ids, set, batch, dim) ==
    LET new == NewChunks(batch, set)
        new_embeddings == [i \in 1..Len(new) |-> normalize_L2(Embed(new[i].chunk_id))]
    IN  IF new = <<>>
        THEN [err |-> "none", out |-> 0, index |-> ix, chunk_ids |-> ids,
              chunk_ids_set |-> set]
        ELSE IF dim # ix.d
        THEN [err |-> "AssertionError", out |-> 0, index |-> ix, chunk_ids |-> ids,
              chunk_ids_set |-> set]
        ELSE [err |-> "none", out |-> Len(new), index |-> IndexAdd(ix, new_embeddings),
              chunk_ids |-> ids \o Ids(new),
              chunk_ids_set |-> set \cup Range(Ids(new))]

(***************************************************************************)
(* search                                                                  *)
(***************************************************************************)
\* The mapping loop of FaissManager.search: positions outside the id list are
\* dropped.
ValidText(h, ids) == 0 <= h.idx /\ h.idx < Len(ids)
MapText(hits, ids) ==
    LET ok == SelectSeq(hits, LAMBDA h : ValidText(h, ids))
    IN  [i \in 1..Len(ok) |-> [chunk_id |-> ids[ok[i].idx + 1], distance |-> ok[i].dist]]

\* The mapping loop of ImageFaissManager.search: also drops dist > 1.0.
ValidImage(h, ids) == 0 <= h.idx /\ h.idx < Len(ids) /\ h.dist <= DISTANCE_THRESHOLD
MapImage(hits, ids) ==
    LET ok == SelectSeq(hits, LAMBDA h : ValidImage(h, ids))
    IN  [i \in 1..Len(ok) |-> [chunk_id |-> ids[ok[i].idx + 1], distance |-> ok[i].dist]]

\* FaissManager.search: the explicit dimension check comes first.
FaissManagerSearch(ix, ids, q, top_k) ==
    IF q.dim # ix.d THEN [err |-> "ValueError", results |-> <<>>]
    ELSE LET r == FaissIndexSearch(ix, q, top_k)
         IN  IF r.err # "none" THEN [err |-> r.err, results |-> <<>>]
             ELSE [err |-> "none", results |-> MapText(r.hits, ids)]

\* Mutant: the query is cut or padded to the index's dimension and searched.
ImageSearchAnyDim(ix, ids, q, top_k) ==
    [err |-> "none",
     results |-> MapImage(IndexSearch(ix, normalize_L2(q.v), 1..ntotal(ix), top_k), ids)]

\* ImageFaissManager.search: no check of its own; index.search raises.
ImageFaissManagerSearch(ix, ids, q, top_k) ==
    LET r == FaissIndexSearch(ix, q, top_k)
    IN  IF r.err # "none" THEN [err |-> r.err, results |-> <<>>]
        ELSE [err |-> "none", results |-> MapImage(r.hits, ids)]

Search(k, ix, ids, q, top_k) ==
    IF k = "text" THEN FaissManagerSearch(ix, ids, q, top_k)
    ELSE ImageFaissManagerSearch(ix, ids, q, top_k)

\* Raw (not yet normalised) query embeddings of either dimension.
Queries == {[v |-> [dir |-> dir, mag |-> 2], dim |-> dim] : dir \in Dirs, dim \in Dims}

(***************************************************************************)
(* MetadataStore: the chunks table                                         *)
(***************************************************************************)
\* What SQLite keeps of a value bound to a column of INTEGER affinity
\* (page_number): a float without fraction and a text that reads as a number
\* become that number, anything else is kept as it is.
NumericTexts == {"7"}
TextAsNumber(s) == IF s = "7" THEN 70 ELSE 0
ColInteger(v) ==
    IF v.t = "real" /\ v.n % 10 = 0 THEN [t |-> "int", n |-> v.n, s |-> ""]
    ELSE IF v.t = "text" /\ v.s \in NumericTexts
    THEN [t |-> "int", n |-> TextAsNumber(v.s), s |-> ""]
    ELSE v

\* ... and to a column of REAL affinity (timestamp): an int and a text that
\* reads as a number become a float.
ColReal(v) ==
    IF v.t = "int" THEN [t |-> "real", n |-> v.n, s |-> ""]
    ELSE IF v.t = "text" /\ v.s \in NumericTexts
    THEN [t |-> "real", n |-> TextAsNumber(v.s), s |-> ""]
    ELSE v

\* The row an INSERT writes for chunk c.
Row(c) == [c EXCEPT !.page_number = ColInteger(@), !.timestamp = ColReal(@)]

\* Mutant: the rows are not written.
save_chunks_lost(st, batch, i) == [store |-> st, inserted_count |-> 0]

\* Mutant: INSERT OR REPLACE.
RECURSIVE save_chunks_replace(_, _, _)
save_chunks_replace(st, batch, i) ==
    IF i > Len(batch) THEN [store |-> st, inserted_count |-> 0]
    ELSE LET c == batch[i]
             st1 == [id \in DOMAIN st \cup {c.chunk_id} |->
                       IF id = c.chunk_id THEN Row(c) ELSE st[id]]
             rest == save_chunks_replace(st1, batch, i + 1)
         IN  [store |-> rest.store, inserted_count |-> rest.inserted_count + 1]

\* INSERT OR IGNORE of batch[i..] in one transaction: a row whose chunk_id is
\* already there (from before or from earlier in the batch) is skipped and
\* not counted.
RECURSIVE save_chunks(_, _, _)
save_chunks(st, batch, i) ==
    IF i > Len(batch) THEN [store |-> st, inserted_count |-> 0]
    ELSE LET c == batch[i]
             rowcount == IF c.chunk_id \notin DOMAIN st THEN 1 ELSE 0
             st1 == IF rowcount > 0
                    THEN [id \in DOMAIN st \cup {c.chunk_id} |->
                            IF id = c.chunk_id THEN Row(c) ELSE st[id]]
                    ELSE st
             rest == save_chunks(st1, batch, i + 1)
         IN  [store |-> rest.store,
              inserted_count |-> rest.inserted_count + rowcount]

\* Mutant: the except branch commits what the transaction did so far.
RollbackKeepsWork(before, working) == working

\* conn.rollback(): the table is as it was at BEGIN TRANSACTION.
Rollback(before, working) == before

\* save_chunks when the statement for batch[j] raises (a value that cannot
\* be bound, an I/O error): the statements before it have run inside the
\* transaction, the except branch rolls back and re-raises.
save_chunks_raising(st, batch, j) ==
    LET done == save_chunks(st, SubSeq(batch, 1, j - 1), 1)
    IN  [store |-> Rollback(st, done.store), err |-> "Error",
         in_transaction |-> done.inserted_count]

\* Mutant: page_number and timestamp are read from each other's column.
get_chunk_swapped(st, id) ==
    IF id \in DOMAIN st
    THEN [found |-> TRUE,
          chunk |-> [st[id] EXCEPT !.page_number = st[id].timestamp,
                                   !.timestamp = st[id].page_number]]
    ELSE [found |-> FALSE, chunk |-> FullChunk("", "", "", "", Null, Null)]

\* get_chunk(chunk_id): the row as a Chunk, or None.
get_chunk(st, id) ==
    IF id \in DOMAIN st
    THEN [found |-> TRUE, chunk |-> st[id]]
    ELSE [found |-> FALSE, chunk |-> FullChunk("", "", "", "", Null, Null)]

\* Chunks as the extractors make them: pdf pages (page_number an int), video
\* frames (page_number the frame's path, timestamp idx * interval, an int)
\* and audio segments (timestamp a float).  Two of them share the id "a".
StoreChunks == { FullChunk("a", "ta", "pdf", "a.pdf", IntVal(1), Null),
                 FullChunk("a", "tx", "pdf", "a.pdf", IntVal(2), Null),
                 FullChunk("b", "tb", "video_frame", "v.mp4", TextVal("frame0.jpg"), IntVal(5)),
                 FullChunk("c", "tc", "audio", "s.mp3", Null, RealVal(25)) }
StoreBatches == UNION {[1..n -> StoreChunks] : n \in 1..MaxBatch}
StoreIds == {"a", "b", "c", "z"}

(***************************************************************************)
(* QuerySystem.query / stream_query, from the two result lists on          *)
(***************************************************************************)
SENTINEL == "Information not found in knowledge base."
MULTIMODAL_KEYWORDS == {"image", "picture", "photo", "screenshot",
                        "video", "frame", "audio", "sound"}

\* A question is the set of its words.
Questions == {{"alpha"}, {"alpha", "video"}}
Multimodal(question) == question \cap MULTIMODAL_KEYWORDS # {}

\* sorted(..., key=lambda x: x["distance"]): stable, ascending by distance.
RECURSIVE InsertByDistance(_, _)
InsertByDistance(x, sorted) ==
    IF sorted = <<>> THEN <<x>>
    ELSE IF sorted[Len(sorted)].distance <= x.distance THEN Append(sorted, x)
    ELSE Append(InsertByDistance(x, SubSeq(sorted, 1, Len(sorted) - 1)),
                sorted[Len(sorted)])

RECURSIVE SortByDistance(_)
SortByDistance(rs) ==
    IF rs = <<>> THEN <<>>
    ELSE InsertByDistance(rs[Len(rs)], SortByDistance(SubSeq(rs, 1, Len(rs) - 1)))

Min(x, y) == IF x < y THEN x ELSE y

\* combined[:top_k]
TopK(combined, top_k) == SubSeq(combined, 1, Min(top_k, Len(combined)))

\* Mutant: the fetch stops at the first id without a row.
RECURSIVE FetchChunksUntilMissing(_, _)
FetchChunksUntilMissing(st, ids) ==
    IF ids = <<>> THEN <<>>
    ELSE LET r == get_chunk(st, ids[1])
         IN  IF r.found THEN <<r.chunk>> \o FetchChunksUntilMissing(st, Tail(ids))
             ELSE <<>>

\* _fetch_chunks_from_db: the chunks of the ids that have a row, in order.
RECURSIVE FetchChunks(_, _)
FetchChunks(st, ids) ==
    IF ids = <<>> THEN <<>>
    ELSE LET r == get_chunk(st, ids[1])
         IN  (IF r.found THEN <<r.chunk>> ELSE <<>>) \o FetchChunks(st, Tail(ids))

RECURSIVE Sum(_)
Sum(ds) == IF ds = <<>> THEN 0 ELSE ds[1] + Sum(Tail(ds))

\* round(num / den) to the nearest integer, halves to the even one.
RoundHalfEven(num, den) ==
    LET q == num \div den
        r == num % den
    IN  IF 2 * r > den THEN q + 1
        ELSE IF 2 * r = den THEN q + (q % 2)
        ELSE q

\* Mutant: the similarity is not clamped at 0.
ConfidenceUnclamped(distances) ==
    LET n == Len(distances)
    IN  RoundHalfEven(10000 * (2 * n - Sum(distances)), 2 * n)

\* round(max(0, 1 - avg_distance / 2) * 100, 2), in hundredths of a percent,
\* for a non-empty list of distances.
Confidence(distances) ==
    LET n == Len(distances)
        num == 10000 * (2 * n - Sum(distances))
    IN  IF num <= 0 THEN 0 ELSE RoundHalfEven(num, 2 * n)

\* sources_dict: one entry per source_file, made from the first chunk of it.
RECURSIVE Sources(_, _, _)
Sources(chunks, seen, confidence) ==
    IF chunks = <<>> THEN <<>>
    ELSE LET c == chunks[1]
         IN  IF c.source_file \in seen THEN Sources(Tail(chunks), seen, confidence)
             ELSE <<[source_type |-> c.source_type, source_file |-> c.source_file,
                     score |-> confidence, page_number |-> c.page_number,
                     timestamp |-> c.timestamp]>>
                  \o Sources(Tail(chunks), seen \cup {c.source_file}, confidence)

\* chunk.text[:400].  The text "tb" stands for a text of more than 400
\* characters, every other text of the model is shorter.
LongTexts == {"tb"}
Trim400(text) == IF text \in LongTexts THEN text \o "[:400]" ELSE text

\* _build_context: one context per chunk, in order.
BuildContext(chunks) ==
    [i \in 1..Len(chunks) |->
        [text |-> Trim400(chunks[i].text), source_file |-> chunks[i].source_file,
         page_number |-> chunks[i].page_number, timestamp |-> chunks[i].timestamp]]

\* OfflineLLM.generate_answer: without contexts the sentinel and no call of
\* the model; an empty completion becomes the sentinel.
generate_answer(contexts, completion) ==
    IF contexts = <<>> THEN [answer |-> SENTINEL, llm_called |-> FALSE]
    ELSE [answer |-> IF completion = "" THEN SENTINEL ELSE completion,
          llm_called |-> TRUE]

\* OfflineLLM.stream_answer: the tokens it yields.
stream_answer(contexts, completion) ==
    IF contexts = <<>> THEN [tokens |-> <<SENTINEL>>, llm_called |-> FALSE]
    ELSE [tokens |-> IF completion = "" THEN <<>> ELSE <<completion>>,
          llm_called |-> TRUE]

\* Mutant: query() has no early return.
NeverEmpty(combined) == FALSE

\* `if not combined:` in query().
NoResults(combined) == combined = <<>>

\* query() from the results of the two searches on; `completion` is what the
\* model would reply.  ranked, chunk_ids and distances are its locals.
Query(text_results, image_results, top_k, st, completion) ==
    LET combined == SortByDistance(text_results \o image_results)
        sel == TopK(combined, top_k)
        ids == [i \in 1..Len(sel) |-> sel[i].chunk_id]
        distances == [i \in 1..Len(sel) |-> sel[i].distance]
        chunks == FetchChunks(st, ids)
        contexts == BuildContext(chunks)
        g == generate_answer(contexts, completion)
    IN  IF NoResults(combined)
        THEN [err |-> "none", answer |-> SENTINEL, sources |-> <<>>, confidence |-> 0,
              llm_called |-> FALSE, ranked |-> combined, chunk_ids |-> <<>>,
              distances |-> <<>>, contexts |-> <<>>]
        ELSE IF distances = <<>>
        THEN [err |-> "ZeroDivisionError", answer |-> "", sources |-> <<>>,
              confidence |-> 0, llm_called |-> g.llm_called, ranked |-> combined,
              chunk_ids |-> ids, distances |-> distances, contexts |-> contexts]
        ELSE [err |-> "none", answer |-> g.answer,
              sources |-> Sources(chunks, {}, Confidence(distances)),
              confidence |-> Confidence(distances), llm_called |-> g.llm_called,
              ranked |-> combined, chunk_ids |-> ids, distances |-> distances,
              contexts |-> contexts]

\* stream_query(): the metadata and the tokens of the generator it returns.
StreamQuery(text_results, image_results, top_k, st, completion) ==
    LET combined == SortByDistance(text_results \o image_results)
        sel == TopK(combined, top_k)
        ids == [i \in 1..Len(sel) |-> sel[i].chunk_id]
        distances == [i \in 1..Len(sel) |-> sel[i].distance]
        chunks == FetchChunks(st, ids)
        contexts == BuildContext(chunks)
        g == stream_answer(contexts, completion)
    IN  IF chunks = <<>>
        THEN [err |-> "none", tokens |-> <<SENTINEL>>, sources |-> <<>>, confidence |-> 0,
              llm_called |-> FALSE, ranked |-> combined, chunk_ids |-> ids,
              distances |-> distances, contexts |-> <<>>]
        ELSE [err |-> "none", tokens |-> g.tokens,
              sources |-> Sources(chunks, {}, Confidence(distances)),
              confidence |-> Confidence(distances), llm_called |-> g.llm_called,
              ranked |-> combined, chunk_ids |-> ids, distances |-> distances,
              contexts |-> contexts]

(***************************************************************************)
(* ingest(): which chunks of a batch go to which index                     *)
(***************************************************************************)
\* text_chunks = [c for c in chunks if c.text];
\* image_chunks = [c for c in chunks if c.source_type == "video_frame"]
Routed(k, batch) ==
    IF k = "text" THEN SelectSeq(batch, LAMBDA c : c.text # "")
    ELSE SelectSeq(batch, LAMBDA c : c.source_type = "video_frame")

(***************************************************************************)
(* The state after construction on a directory without files.              *)
(***************************************************************************)
\* A thread that is in no call.
NoQuery == [v |-> [dir |-> 0, mag |-> 0], dim |-> 0]
AdderIdle == [pc |-> "idle", batch |-> <<>>, dim |-> 0, new |-> <<>>, i |-> 0,
              err |-> "none", out |-> 0, pre |-> {}]
SearcherIdle == [pc |-> "idle", q |-> NoQuery, top_k |-> 0, hits |-> <<>>, i |-> 0,
                 results |-> <<>>, err |-> "none", snapIds |-> <<>>, snapN |-> 0]

(***************************************************************************)
(* The token generators.  stream_query() returns either iter([sentinel])   *)
(* or the generator of OfflineLLM.stream_answer; nothing of a generator    *)
(* runs before its first next().  The backend is a script: the texts of    *)
(* the chunks it delivers and whether it raises after them.                *)
(***************************************************************************)
MaxTokens == 2       \* most chunks the backend delivers in one stream

ERROR_MARKER == "Error generating response. Please try again."
TokenTexts == {"x", "y", ""}
Scripts == UNION {[1..n -> TokenTexts] : n \in 0..MaxTokens}

\* iter(items): a list iterator.
ListIterator(items) ==
    [src |-> "list", pc |-> "unstarted", items |-> items, script |-> <<>>,
     fails |-> FALSE, raised |-> FALSE, llm_called |-> FALSE]

\* Mutant: stream_answer runs to its first yield when it is called.
RECURSIVE StreamAnswerEager(_, _, _)
StreamAnswerEager(contexts, script, fails) ==
    IF contexts = <<>>
    THEN [src |-> "list", pc |-> "running", items |-> <<>>, script |-> <<>>,
          fails |-> FALSE, raised |-> FALSE, llm_called |-> FALSE]
    ELSE IF script # <<>> /\ script[1] = "" THEN StreamAnswerEager(contexts, Tail(script), fails)
    ELSE [src |-> "llm", pc |-> IF script = <<>> THEN "done" ELSE "running",
          items |-> <<>>, script |-> IF script = <<>> THEN <<>> ELSE Tail(script),
          fails |-> fails, raised |-> FALSE, llm_called |-> TRUE]

\* Calling stream_answer makes a generator object and runs none of its body.
\* Without contexts its body yields the sentinel and returns.
StreamAnswerCall(contexts, script, fails) ==
    IF contexts = <<>> THEN ListIterator(<<SENTINEL>>)
    ELSE [src |-> "llm", pc |-> "unstarted", items |-> <<>>, script |-> script,
          fails |-> fails, raised |-> FALSE, llm_called |-> FALSE]

\* The result of one next(): a token, or StopIteration (stop), or an
\* exception that leaves the generator (err).
Yield(g, token) == [gen |-> g, stop |-> FALSE, token |-> token, err |-> "none"]
Stop(g) == [gen |-> [g EXCEPT !.pc = "done"], stop |-> TRUE, token |-> "", err |-> "none"]

\* Mutant: stream_answer without its try/except.
BackendRaisedUncaught(g) ==
    [gen |-> [g EXCEPT !.pc = "done", !.raised = TRUE], stop |-> FALSE, token |-> "",
     err |-> "Exception"]

\* except Exception: yield the error marker; the next next() returns.
BackendRaised(g) == Yield([g EXCEPT !.pc = "failed", !.raised = TRUE], ERROR_MARKER)

\* next(token_generator).  In stream_answer: the backend's chunks in order,
\* those with an empty text skipped.
RECURSIVE GeneratorNext(_)
GeneratorNext(g) ==
    IF g.pc = "done" \/ g.pc = "failed" THEN Stop(g)
    ELSE IF g.src = "list"
    THEN IF g.items = <<>> THEN Stop(g)
         ELSE Yield([g EXCEPT !.pc = "running", !.items = Tail(@)], g.items[1])
    ELSE LET h == [g EXCEPT !.pc = "running", !.llm_called = TRUE]
         IN  IF h.script = <<>>
             THEN IF h.fails THEN BackendRaised(h) ELSE Stop(h)
             ELSE IF h.script[1] = ""
             THEN GeneratorNext([h EXCEPT !.script = Tail(@)])
             ELSE Yield([h EXCEPT !.script = Tail(@)], h.script[1])

\* A server-sent event.
Event(type, data) == [type |-> type, data |-> data]

\* What a request brings with it: what the text search returns for its
\* question, the backend's script, and whether saving the answer fails.
StreamRequest(text_results, script, fails, db_fails) ==
    [text_results |-> text_results, script |-> script, fails |-> fails,
     db_fails |-> db_fails]

\* No streaming request.
StreamIdle ==
    [pc |-> "idle", in |-> StreamRequest(<<>>, <<>>, FALSE, FALSE),
     gen |-> ListIterator(<<>>), metadata |-> [sources |-> <<>>, confidence |-> 0],
     events |-> <<>>, collected_answer |-> "", messages |-> <<>>]

(***************************************************************************)
(* The in-memory session histories of the server and the calls of          *)
(* append_session_message in flight.                                       *)
(***************************************************************************)
MaxAppends == 12     \* most calls of append_session_message in a behaviour

HISTORY_LIMIT == 10
SessionList == <<"s1", "s2">>
SessionIds == Range(SessionList)
Requests == {1, 2}

RequestIdle == [pc |-> "idle", session_id |-> ""]

\* No session yet (chat_sessions = {}), the lock free, no call in flight.
\* appended is the list of all messages appended to each session, kept for
\* the properties.
SessionsIdle ==
    [chat_sessions |-> <<>>, lock |-> 0,
     reqs |-> [r \in Requests |-> RequestIdle],
     appended |-> [sid \in SessionIds |-> <<>>]]

\* Mutant: the first 10 entries are kept.
TrimHistoryFront(history) ==
    IF Len(history) > HISTORY_LIMIT THEN SubSeq(history, 1, HISTORY_LIMIT) ELSE history

\* if len(history) > 10: chat_sessions[session_id] = history[-10:]
TrimHistory(history) ==
    IF Len(history) > HISTORY_LIMIT
    THEN SubSeq(history, Len(history) - HISTORY_LIMIT + 1, Len(history))
    ELSE history

\* chat_sessions.setdefault(session_id, [])
SetDefault(cs, sid) ==
    IF sid \in DOMAIN cs THEN cs
    ELSE [k \in DOMAIN cs \cup {sid} |-> IF k = sid THEN <<>> ELSE cs[k]]

(***************************************************************************)
(* A call of a function wrapped by retry(max_attempts, exceptions): the    *)
(* outcomes of the function's invocations are a script.                    *)
(***************************************************************************)
MaxAttempts == 3     \* largest max_attempts of a wrapped function

\* An exception object: its kind and the invocation that raised it.
\* "listed" is an instance of one of `exceptions`, "other" is not, "None" is
\* the value None and "TypeError" what `raise None` raises.
Exc(type, invocation) == [type |-> type, invocation |-> invocation]
NoExc == Exc("None", 0)

\* What one invocation of the wrapped function does.
Outcomes == {"ok", "listed", "other"}

CallIdle ==
    [wrapper |-> "retry", pc |-> "idle", max_attempts |-> 0, outcomes |-> <<>>,
     attempt |-> 0, invoked |-> 0, last_exception |-> NoExc, result |-> 0,
     raised |-> NoExc]

Ret(op, in, err, out, pre) == [op |-> op, in |-> in, err |-> err, out |-> out, pre |-> pre]

Init ==
    /\ kind \in Kinds
    /\ index = EmptyIndex(EmbeddingDim(kind))
    /\ chunk_ids = <<>>
    /\ chunk_ids_set = {}
    /\ diskIndex = NoIndexFile
    /\ diskMeta = NoMetaFile
    /\ store = <<>>
    /\ ret = Ret("init", <<>>, "none", <<>>, <<>>)
    /\ proc = "up"
    /\ lastSaved = <<NoIndexFile, NoMetaFile>>
    /\ lock = "free"
    /\ adder = AdderIdle
    /\ searcher = SearcherIdle
    /\ stream = StreamIdle
    /\ sessions = SessionsIdle
    /\ call = CallIdle

mem == <<index, chunk_ids, chunk_ids_set>>
threads == <<lock, adder, searcher>>
api == <<stream, sessions, call>>

(***************************************************************************)
(* Operations, each a whole call.                                          *)
(***************************************************************************)
\* A fresh manager on the same paths (a restart, or a second instance).  When
\* the constructor raises, no manager comes to be.
DoConstruct ==
    /\ LET m == Construct(kind, diskIndex, diskMeta)
       IN  /\ IF m.err = "none"
              THEN /\ index' = m.index
                   /\ chunk_ids' = m.chunk_ids
                   /\ chunk_ids_set' = m.chunk_ids_set
                   /\ proc' = "up"
              ELSE UNCHANGED <<index, chunk_ids, chunk_ids_set, proc>>
           /\ ret' = Ret("construct",
                         [index_file |-> Exists(diskIndex), meta_file |-> Exists(diskMeta)],
                         m.err, m.out, <<>>)
    /\ UNCHANGED <<api, kind, diskIndex, diskMeta, store, lastSaved, threads>>

DoAdd(batch, dim) ==
    /\ proc = "up"
    /\ ntotal(index) + Len(batch) <= MaxVec
    /\ LET r == Add(index, chunk_ids, chunk_ids_set, batch, dim)
       IN  /\ index' = r.index
           /\ chunk_ids' = r.chunk_ids
           /\ chunk_ids_set' = r.chunk_ids_set
           /\ ret' = Ret("add", [batch |-> batch, dim |-> dim], r.err, r.out,
                         chunk_ids_set)
    /\ UNCHANGED <<api, kind, diskIndex, diskMeta, store, proc, lastSaved, threads>>

\* save(): write_index, then pickle.dump of the id list.
DoSave ==
    /\ proc = "up"
    /\ diskIndex' = SaveFiles(index, chunk_ids)[1]
    /\ diskMeta' = SaveFiles(index, chunk_ids)[2]
    /\ lastSaved' = SaveFiles(index, chunk_ids)
    /\ ret' = Ret("save", <<>>, "none", <<>>, <<>>)
    /\ UNCHANGED <<api, kind, index, chunk_ids, chunk_ids_set, store, proc, threads>>

\* Mutant: reset() leaves the membership set as it is.
ResetKeepsSet(k, set) ==
    [index |-> EmptyIndex(EmbeddingDim(k)), chunk_ids |-> <<>>, chunk_ids_set |-> set,
     index_file |-> NoIndexFile, meta_file |-> NoMetaFile]

\* What reset() leaves: a new IndexFlatL2, an empty id list, the cleared
\* membership set and neither file.
Reset(k, set) ==
    [index |-> EmptyIndex(EmbeddingDim(k)), chunk_ids |-> <<>>, chunk_ids_set |-> {},
     index_file |-> NoIndexFile, meta_file |-> NoMetaFile]

\* reset(), all of it under the lock.
DoReset ==
    /\ proc = "up"
    /\ lock = "free"
    /\ LET r == Reset(kind, chunk_ids_set)
       IN  /\ index' = r.index
           /\ chunk_ids' = r.chunk_ids
           /\ chunk_ids_set' = r.chunk_ids_set
           /\ diskIndex' = r.index_file
           /\ diskMeta' = r.meta_file
           /\ lastSaved' = <<r.index_file, r.meta_file>>
    /\ ret' = Ret("reset", [index_file |-> Exists(diskIndex), meta_file |-> Exists(diskMeta)],
                  "none", <<>>, chunk_ids_set)
    /\ UNCHANGED <<api, kind, store, proc, threads>>

DoSearch(q, top_k) ==
    /\ proc = "up"
    /\ LET r == Search(kind, index, chunk_ids, q, top_k)
       IN  ret' = Ret("search", [q |-> q, top_k |-> top_k], r.err, r.results, mem)
    /\ UNCHANGED <<api, kind, index, chunk_ids, chunk_ids_set, diskIndex, diskMeta, store,
                   proc, lastSaved, threads>>

DoSaveChunks(batch) ==
    /\ proc = "up"
    /\ LET r == save_chunks(store, batch, 1)
       IN  /\ store' = r.store
           /\ ret' = Ret("save_chunks", batch, "none", r.inserted_count, store)
    /\ UNCHANGED <<api, kind, index, chunk_ids, chunk_ids_set, diskIndex, diskMeta,
                   proc, lastSaved, threads>>

DoSaveChunksRaising(batch, j) ==
    /\ proc = "up"
    /\ LET r == save_chunks_raising(store, batch, j)
       IN  /\ store' = r.store
           /\ ret' = Ret("save_chunks", batch, r.err, r.in_transaction, store)
    /\ UNCHANGED <<api, kind, index, chunk_ids, chunk_ids_set, diskIndex, diskMeta,
                   proc, lastSaved, threads>>

DoGetChunk(id) ==
    /\ proc = "up"
    /\ ret' = Ret("get_chunk", id, "none", get_chunk(store, id), <<>>)
    /\ UNCHANGED <<api, kind, index, chunk_ids, chunk_ids_set, diskIndex, diskMeta, store,
                   proc, lastSaved, threads>>

\* ingest(): save_chunks, then a manager of its own constructed on the files,
\* then add and save when the batch has chunks for this index.
DoIngest(batch) ==
    /\ proc = "up"
    /\ LET s == save_chunks(store, batch, 1)
           m == Construct(kind, diskIndex, diskMeta)
           mine == Routed(kind, batch)
           r == Add(m.index, m.chunk_ids, m.chunk_ids_set, mine, EmbeddingDim(kind))
       IN  /\ ntotal(m.index) + Len(batch) <= MaxVec
           /\ store' = s.store
           /\ IF m.err # "none"
              THEN /\ UNCHANGED <<index, chunk_ids, chunk_ids_set, diskIndex, diskMeta,
                                  lastSaved>>
                   /\ ret' = Ret("ingest", batch, m.err,
                                 [saved |-> s.inserted_count, added |-> 0],
                                 <<store, diskIndex, diskMeta>>)
              ELSE IF mine = <<>>
              THEN /\ index' = m.index
                   /\ chunk_ids' = m.chunk_ids
                   /\ chunk_ids_set' = m.chunk_ids_set
                   /\ UNCHANGED <<diskIndex, diskMeta, lastSaved>>
                   /\ ret' = Ret("ingest", batch, "none",
                                 [saved |-> s.inserted_count, added |-> 0],
                                 <<store, diskIndex, diskMeta>>)
              ELSE /\ index' = r.index
                   /\ chunk_ids' = r.chunk_ids
                   /\ chunk_ids_set' = r.chunk_ids_set
                   /\ diskIndex' = SaveFiles(r.index, r.chunk_ids)[1]
                   /\ diskMeta' = SaveFiles(r.index, r.chunk_ids)[2]
                   /\ lastSaved' = SaveFiles(r.index, r.chunk_ids)
                   /\ ret' = Ret("ingest", batch, r.err,
                                 [saved |-> s.inserted_count, added |-> r.out],
                                 <<store, diskIndex, diskMeta>>)
    /\ UNCHANGED <<api, kind, proc, threads>>

(***************************************************************************)
(* The server: handle_ingest on the long-lived managers of the query system *)
(***************************************************************************)
FileTypes == {"pdf", "video", "image"}

\* The chunks the extractor of a file type makes (ids unique in a batch).
ExtractedChunks(ft) ==
    IF ft = "pdf" THEN {Chunk("a", "ta", "pdf"), Chunk("d", "td", "pdf")}
    ELSE IF ft = "video" THEN {Chunk("b", "tb", "video_frame")}
    ELSE {Chunk("c", "tc", "image")}

Extracted(ft) ==
    {b \in UNION {[1..n -> ExtractedChunks(ft)] : n \in 1..MaxBatch} : NoDuplicates(Ids(b))}

\* The long-lived manager handle_ingest adds to: image_faiss for an image
\* file, text_faiss for every other file type.
TargetKind(ft) == IF ft = "image" THEN "image" ELSE "text"

\* handle_ingest: ingest() (rows, then a manager of its own on the files:
\* add, save), then add to the query system's manager and save it when
\* something was added.
DoHandleIngest(ft, batch) ==
    /\ proc = "up"
    /\ LET s == save_chunks(store, batch, 1)
           m == Construct(kind, diskIndex, diskMeta)
           mine == Routed(kind, batch)
           r == Add(m.index, m.chunk_ids, m.chunk_ids_set, mine, EmbeddingDim(kind))
           ingested == IF mine = <<>> THEN <<diskIndex, diskMeta>>
                       ELSE SaveFiles(r.index, r.chunk_ids)
           a == Add(index, chunk_ids, chunk_ids_set, batch, EmbeddingDim(kind))
       IN  /\ m.err = "none"
           /\ ntotal(m.index) + Len(batch) <= MaxVec
           /\ ntotal(index) + Len(batch) <= MaxVec
           /\ store' = s.store
           /\ IF TargetKind(ft) = kind
              THEN /\ index' = a.index
                   /\ chunk_ids' = a.chunk_ids
                   /\ chunk_ids_set' = a.chunk_ids_set
                   /\ diskIndex' = IF a.out > 0 THEN SaveFiles(a.index, a.chunk_ids)[1]
                                   ELSE ingested[1]
                   /\ diskMeta' = IF a.out > 0 THEN SaveFiles(a.index, a.chunk_ids)[2]
                                  ELSE ingested[2]
                   /\ ret' = Ret("handle_ingest", [file_type |-> ft, batch |-> batch],
                                 "none", [saved |-> s.inserted_count, added |-> a.out], <<>>)
              ELSE /\ UNCHANGED <<index, chunk_ids, chunk_ids_set>>
                   /\ diskIndex' = ingested[1]
                   /\ diskMeta' = ingested[2]
                   /\ ret' = Ret("handle_ingest", [file_type |-> ft, batch |-> batch],
                                 "none", [saved |-> s.inserted_count, added |-> 0], <<>>)
           /\ lastSaved' = <<diskIndex', diskMeta'>>
    /\ UNCHANGED <<api, kind, proc, threads>>

\* handle_ingest when save_chunks raises inside ingest(): nothing is indexed.
DoHandleIngestRaising(ft, batch, j) ==
    /\ proc = "up"
    /\ LET r == save_chunks_raising(store, batch, j)
       IN  /\ store' = r.store
           /\ ret' = Ret("handle_ingest", [file_type |-> ft, batch |-> batch],
                         r.err, [saved |-> 0, added |-> 0], <<>>)
    /\ UNCHANGED <<api, kind, index, chunk_ids, chunk_ids_set, diskIndex, diskMeta,
                   proc, lastSaved, threads>>

(***************************************************************************)
(* Queries.  The two searches have run; what they returned is the input:   *)
(* lists of at most top_k hits, nearest first, the image hits within       *)
(* DISTANCE_THRESHOLD.  The id "z" has no row; "b", a video frame with a   *)
(* caption, is in both indexes.                                            *)
(***************************************************************************)
QDists == {0, 1, 3}
Hits(ids, dists) == {[chunk_id |-> id, distance |-> d] : id \in ids, d \in dists}
IsSorted(rs) == \A i \in 1..(Len(rs) - 1) : rs[i].distance <= rs[i + 1].distance
ResultLists(hits, k) ==
    {rs \in UNION {[1..n -> hits] : n \in 0..k} :
        IsSorted(rs) /\ NoDuplicates([i \in 1..Len(rs) |-> rs[i].chunk_id])}
TextResults(k) == ResultLists(Hits({"a", "b", "z"}, QDists), k)
ImageResults(k) == ResultLists(Hits({"b"}, {d \in QDists : d <= DISTANCE_THRESHOLD}), k)

\* What the model replies when it is called.
Completions == {"an answer", "", SENTINEL}

\* The stores the queries resolve their ids in.
QueryStores ==
    {save_chunks(<<>>, b, 1).store :
        b \in {<<>>,
               <<FullChunk("a", "alpha beta", "pdf", "a.pdf", IntVal(1), Null)>>,
               <<FullChunk("b", "tb", "video_frame", "v.mp4",
                           TextVal("frame0.jpg"), IntVal(5))>>,
               <<FullChunk("a", "alpha beta", "pdf", "a.pdf", IntVal(1), Null),
                 FullChunk("b", "tb", "video_frame", "v.mp4",
                           TextVal("frame0.jpg"), IntVal(5))>>}}

\* A question, what the searches returned for it and what the model would
\* reply.  The image index is searched only for a multimodal question.
QueryInputs ==
    UNION {{[question |-> q, text_results |-> tr, image_results |-> ir, top_k |-> k,
             completion |-> c] :
               q \in Questions, c \in Completions, tr \in TextResults(k),
               ir \in ImageResults(k)} : k \in 1..MaxTopK}

\* A query system about to be asked.
InitQuery ==
    /\ kind \in Kinds
    /\ index = EmptyIndex(EmbeddingDim(kind))
    /\ chunk_ids = <<>>
    /\ chunk_ids_set = {}
    /\ diskIndex = NoIndexFile
    /\ diskMeta = NoMetaFile
    /\ store \in QueryStores
    /\ ret \in {Ret("ask", inp, "none", <<>>, <<>>) :
                  inp \in {i \in QueryInputs :
                             Multimodal(i.question) \/ i.image_results = <<>>}}
    /\ proc = "up"
    /\ lastSaved = <<NoIndexFile, NoMetaFile>>
    /\ lock = "free"
    /\ adder = AdderIdle
    /\ searcher = SearcherIdle
    /\ stream = StreamIdle
    /\ sessions = SessionsIdle
    /\ call = CallIdle

DoQuery ==
    /\ proc = "up"
    /\ ret.op = "ask"
    /\ LET r == Query(ret.in.text_results, ret.in.image_results, ret.in.top_k, store,
                      ret.in.completion)
       IN  ret' = Ret("query", ret.in, r.err, r, <<>>)
    /\ UNCHANGED <<api, kind, index, chunk_ids, chunk_ids_set, diskIndex, diskMeta, store,
                   proc, lastSaved, threads>>

DoStreamQuery ==
    /\ proc = "up"
    /\ ret.op = "ask"
    /\ LET r == StreamQuery(ret.in.text_results, ret.in.image_results, ret.in.top_k,
                            store, ret.in.completion)
       IN  ret' = Ret("stream_query", ret.in, r.err, r, <<>>)
    /\ UNCHANGED <<api, kind, index, chunk_ids, chunk_ids_set, diskIndex, diskMeta, store,
                   proc, lastSaved, threads>>

(***************************************************************************)
(* Retriever.retrieve over the chunks given to the constructor.            *)
(***************************************************************************)
MaxWalkK == 3        \* largest top_k of Retriever.retrieve

\* self.chunk_lookup: chunk_id -> Chunk.
RetrieverChunks ==
    {FullChunk("p1", "t1", "pdf", "a.pdf", IntVal(1), Null),
     FullChunk("p2", "t2", "pdf", "a.pdf", IntVal(2), Null),
     FullChunk("p3", "t3", "pdf", "a.pdf", IntVal(3), Null),
     FullChunk("au", "t4", "audio", "s.mp3", Null, RealVal(25)),
     FullChunk("v", "t5", "video_frame", "v.mp4", TextVal("frame0.jpg"), IntVal(5))}
chunk_lookup == [id \in {c.chunk_id : c \in RetrieverChunks} |->
                    CHOOSE c \in RetrieverChunks : c.chunk_id = id]

\* getattr(chunk, "modality", "unknown")
Modality(chunk) == IF "modality" \in DOMAIN chunk THEN chunk.modality ELSE "unknown"

\* chunk.source_type
SourceType(chunk) == chunk.source_type

\* modality_count.get(tag, 0)
CountOf(modality_count, tag) ==
    IF tag \in DOMAIN modality_count THEN modality_count[tag] ELSE 0

\* The loop over the sorted candidates; tags[id] is the tag the cap counts
\* the chunk of that id by.
RECURSIVE DiversityWalk(_, _, _, _, _, _)
DiversityWalk(combined, retrieved, modality_count, top_k, lookup, tags) ==
    IF combined = <<>> THEN retrieved
    ELSE LET result == combined[1]
             rest == Tail(combined)
         IN  IF result.chunk_id \notin DOMAIN lookup
             THEN DiversityWalk(rest, retrieved, modality_count, top_k, lookup, tags)
             ELSE LET chunk == lookup[result.chunk_id]
                      tag == tags[chunk.chunk_id]
                  IN  IF CountOf(modality_count, tag) >= 2
                      THEN DiversityWalk(rest, retrieved, modality_count, top_k, lookup, tags)
                      ELSE LET r == Append(retrieved,
                                          [chunk_id |-> chunk.chunk_id,
                                           distance |-> result.distance, modality |-> tag])
                               mc == [t \in DOMAIN modality_count \cup {tag} |->
                                         IF t = tag THEN CountOf(modality_count, tag) + 1
                                         ELSE modality_count[t]]
                           IN  IF Len(r) >= top_k THEN r
                               ELSE DiversityWalk(rest, r, mc, top_k, lookup, tags)

\* Retriever.retrieve from the results of the two searches on.
Retrieve(text_results, image_results, top_k, lookup) ==
    LET combined == text_results \o image_results
    IN  IF combined = <<>> THEN <<>>
        ELSE DiversityWalk(SortByDistance(combined), <<>>, <<>>, top_k, lookup,
                           [id \in DOMAIN lookup |-> Modality(lookup[id])])

RetrieveInputs ==
    UNION {{[text_results |-> tr, image_results |-> ir, top_k |-> k] :
               tr \in ResultLists(Hits({"p1", "p2", "p3", "au", "z"}, {0, 1}), k),
               ir \in ResultLists(Hits({"v"}, {0, 1}), k)} : k \in 1..MaxWalkK}

\* A retriever about to be asked.
InitRetrieve ==
    /\ kind \in Kinds
    /\ index = EmptyIndex(EmbeddingDim(kind))
    /\ chunk_ids = <<>>
    /\ chunk_ids_set = {}
    /\ diskIndex = NoIndexFile
    /\ diskMeta = NoMetaFile
    /\ store = <<>>
    /\ ret \in {Ret("ask", inp, "none", <<>>, <<>>) : inp \in RetrieveInputs}
    /\ proc = "up"
    /\ lastSaved = <<NoIndexFile, NoMetaFile>>
    /\ lock = "free"
    /\ adder = AdderIdle
    /\ searcher = SearcherIdle
    /\ stream = StreamIdle
    /\ sessions = SessionsIdle
    /\ call = CallIdle

DoRetrieve ==
    /\ proc = "up"
    /\ ret.op = "ask"
    /\ ret' = Ret("retrieve", ret.in, "none",
                  Retrieve(ret.in.text_results, ret.in.image_results, ret.in.top_k,
                           chunk_lookup), <<>>)
    /\ UNCHANGED <<api, kind, index, chunk_ids, chunk_ids_set, diskIndex, diskMeta, store,
                   proc, lastSaved, threads>>

NextRetrieve == DoRetrieve

\* The retriever asked once.
SpecRetrieve == InitRetrieve /\ [][NextRetrieve]_vars

(***************************************************************************)
(* stream_query_endpoint.  The request is fixed at the start; each action  *)
(* runs generate() from one yield to the next, the saving of the answer    *)
(* being a step of its own.                                                *)
(***************************************************************************)
\* Mutant: add_message logs the failure and returns.
add_message_swallow(messages, role, content, db_fails) ==
    [err |-> "none",
     messages |-> IF db_fails THEN messages
                  ELSE Append(messages, [role |-> role, content |-> content])]

\* ChatHistoryStore.add_message: the row is inserted and committed, or the
\* exception is raised again.
add_message(messages, role, content, db_fails) ==
    IF db_fails THEN [err |-> "sqlite3.Error", messages |-> messages]
    ELSE [err |-> "none", messages |-> Append(messages, [role |-> role, content |-> content])]

StreamRequests ==
    {StreamRequest(tr, sc, f, d) :
        tr \in TextResults(1), sc \in Scripts, f \in BOOLEAN, d \in BOOLEAN}

\* A server that has received a streaming request.
InitStream ==
    /\ kind \in Kinds
    /\ index = EmptyIndex(EmbeddingDim(kind))
    /\ chunk_ids = <<>>
    /\ chunk_ids_set = {}
    /\ diskIndex = NoIndexFile
    /\ diskMeta = NoMetaFile
    /\ store \in QueryStores
    /\ ret = Ret("init", <<>>, "none", <<>>, <<>>)
    /\ proc = "up"
    /\ lastSaved = <<NoIndexFile, NoMetaFile>>
    /\ lock = "free"
    /\ adder = AdderIdle
    /\ searcher = SearcherIdle
    /\ stream \in {[StreamIdle EXCEPT !.pc = "request", !.in = r] : r \in StreamRequests}
    /\ sessions = SessionsIdle
    /\ call = CallIdle

NotStreaming ==
    UNCHANGED <<kind, index, chunk_ids, chunk_ids_set, diskIndex, diskMeta, store, ret,
                proc, lastSaved, threads, sessions, call>>

\* The endpoint up to `return StreamingResponse(generate(), ...)`: the user
\* message is stored and stream_query gives the metadata and the generator.
DoStreamQueryEndpoint ==
    /\ stream.pc = "request"
    /\ LET r == StreamQuery(stream.in.text_results, <<>>, 1, store, "")
       IN  stream' = [stream EXCEPT
               !.pc = "response",
               !.messages = add_message(@, "user", "question", FALSE).messages,
               !.metadata = [sources |-> r.sources, confidence |-> r.confidence],
               !.gen = IF r.contexts = <<>> THEN ListIterator(<<SENTINEL>>)
                       ELSE StreamAnswerCall(r.contexts, stream.in.script, stream.in.fails)]
    /\ NotStreaming

\* generate() to its first yield: the metadata event.
GenerateMetadata ==
    /\ stream.pc = "response"
    /\ stream' = [stream EXCEPT !.pc = "tokens",
                                !.events = Append(@, Event("metadata", ""))]
    /\ NotStreaming

\* `for token in token_generator`: one next(); a token is collected and
\* yielded, the end of the tokens leads to the saving, an exception to the
\* [ERROR] event.
GenerateToken ==
    /\ stream.pc = "tokens"
    /\ LET r == GeneratorNext(stream.gen)
       IN  stream' =
             IF r.err # "none"
             THEN [stream EXCEPT !.pc = "end", !.gen = r.gen,
                                 !.events = Append(@, Event("error", r.err))]
             ELSE IF r.stop
             THEN [stream EXCEPT !.pc = "save", !.gen = r.gen]
             ELSE [stream EXCEPT !.gen = r.gen,
                                 !.collected_answer = @ \o r.token,
                                 !.events = Append(@, Event("token", r.token))]
    /\ NotStreaming

\* chat_history.add_message(chat_id, "assistant", collected_answer, ...);
\* when it raises, [ERROR] is yielded.
GenerateSave ==
    /\ stream.pc = "save"
    /\ LET r == add_message(stream.messages, "assistant", stream.collected_answer,
                            stream.in.db_fails)
       IN  stream' =
             IF r.err # "none"
             THEN [stream EXCEPT !.pc = "end", !.events = Append(@, Event("error", r.err))]
             ELSE [stream EXCEPT !.pc = "saved", !.messages = r.messages]
    /\ NotStreaming

\* yield "data: [DONE]"
GenerateDone ==
    /\ stream.pc = "saved"
    /\ stream' = [stream EXCEPT !.pc = "end", !.events = Append(@, Event("done", ""))]
    /\ NotStreaming

\* The client goes away while generate() is suspended at a yield (or
\* before its first step): the generator is closed and runs no further.
ClientDisconnect ==
    /\ stream.pc \in {"response", "tokens"}
    /\ stream' = [stream EXCEPT !.pc = "closed"]
    /\ NotStreaming

NextStream ==
    \/ DoStreamQueryEndpoint
    \/ GenerateMetadata
    \/ GenerateToken
    \/ GenerateSave
    \/ GenerateDone
    \/ ClientDisconnect

\* One streaming request from its arrival to the end of its stream.
SpecStream == InitStream /\ [][NextStream]_vars

(***************************************************************************)
(* append_session_message from concurrent requests: the call, the entry    *)
(* into `with chat_sessions_lock` with the append, and the truncation      *)
(* with the exit from it.                                                  *)
(***************************************************************************)
NotSessions ==
    UNCHANGED <<kind, index, chunk_ids, chunk_ids_set, diskIndex, diskMeta, store, ret,
                proc, lastSaved, threads, stream, call>>

\* The calls made so far: the messages appended and the calls in flight.
SessionCalls ==
    Sum([i \in 1..Len(SessionList) |-> Len(sessions.appended[SessionList[i]])])
        + Cardinality({r \in Requests : sessions.reqs[r].pc # "idle"})

\* A request calls append_session_message(session_id, role, content).
SessionCall(r, sid) ==
    /\ sessions.reqs[r].pc = "idle"
    /\ SessionCalls < MaxAppends
    /\ sessions' = [sessions EXCEPT !.reqs[r] = [pc |-> "wait", session_id |-> sid]]
    /\ NotSessions

\* with chat_sessions_lock: history = setdefault(...); history.append(...).
\* The messages are told apart by their content, which is here the number
\* of the message in the order of appending.
SessionAppend(r) ==
    /\ sessions.reqs[r].pc = "wait"
    /\ sessions.lock = 0
    /\ LET sid == sessions.reqs[r].session_id
           msg == [role |-> "user", content |-> SessionCalls
                       - Cardinality({q \in Requests : sessions.reqs[q].pc # "idle"}) + 1]
           cs == SetDefault(sessions.chat_sessions, sid)
       IN  sessions' = [sessions EXCEPT
               !.lock = r,
               !.chat_sessions = [cs EXCEPT ![sid] = Append(@, msg)],
               !.appended[sid] = Append(@, msg),
               !.reqs[r].pc = "trim"]
    /\ NotSessions

\* if len(history) > 10: chat_sessions[session_id] = history[-10:]; the
\* lock is released.
SessionTrim(r) ==
    /\ sessions.reqs[r].pc = "trim"
    /\ sessions.lock = r
    /\ LET sid == sessions.reqs[r].session_id
       IN  sessions' = [sessions EXCEPT
               !.lock = 0,
               !.chat_sessions[sid] = TrimHistory(@),
               !.reqs[r] = RequestIdle]
    /\ NotSessions

NextSessions ==
    \/ \E r \in Requests, sid \in SessionIds : SessionCall(r, sid)
    \/ \E r \in Requests : SessionAppend(r)
    \/ \E r \in Requests : SessionTrim(r)

\* Requests appending to the session histories.
SpecSessions == Init /\ [][NextSessions]_vars

(***************************************************************************)
(* The wrapper made by retry / async_retry, one pass of its loop at a      *)
(* time.  The two wrappers differ in `await` only.                         *)
(***************************************************************************)
NotCall ==
    UNCHANGED <<kind, index, chunk_ids, chunk_ids_set, diskIndex, diskMeta, store, ret,
                proc, lastSaved, threads, stream, sessions>>

\* A wrapper about to be called: max_attempts and what the invocations of
\* the function would do, one more than the wrapper may make.
InitRetry ==
    /\ kind \in Kinds
    /\ index = EmptyIndex(EmbeddingDim(kind))
    /\ chunk_ids = <<>>
    /\ chunk_ids_set = {}
    /\ diskIndex = NoIndexFile
    /\ diskMeta = NoMetaFile
    /\ store = <<>>
    /\ ret = Ret("init", <<>>, "none", <<>>, <<>>)
    /\ proc = "up"
    /\ lastSaved = <<NoIndexFile, NoMetaFile>>
    /\ lock = "free"
    /\ adder = AdderIdle
    /\ searcher = SearcherIdle
    /\ stream = StreamIdle
    /\ sessions = SessionsIdle
    /\ call \in {[CallIdle EXCEPT !.wrapper = w, !.pc = "loop", !.max_attempts = n,
                                   !.outcomes = o] :
                    w \in {"retry", "async_retry"}, n \in 0..MaxAttempts,
                    o \in [1..(MaxAttempts + 1) -> Outcomes]}

\* One pass of `for attempt in range(max_attempts)`: the function is
\* invoked; its result is returned, or its listed exception is kept and the
\* loop goes on, or its other exception propagates.
RetryAttempt ==
    /\ call.pc = "loop"
    /\ call.attempt < call.max_attempts
    /\ LET k == call.invoked + 1
           outcome == call.outcomes[k]
       IN  call' =
             IF outcome = "ok"
             THEN [call EXCEPT !.invoked = k, !.pc = "returned", !.result = k]
             ELSE IF outcome = "listed"
             THEN [call EXCEPT !.invoked = k, !.last_exception = Exc("listed", k),
                               !.attempt = @ + 1]
             ELSE [call EXCEPT !.invoked = k, !.pc = "raised", !.raised = Exc("other", k)]
    /\ NotCall

\* `raise last_exception`; raising None is a TypeError.
RaiseLast(last_exception) ==
    IF last_exception = NoExc THEN Exc("TypeError", 0) ELSE last_exception

\* The loop is over: raise last_exception.
RetryExhausted ==
    /\ call.pc = "loop"
    /\ call.attempt >= call.max_attempts
    /\ call' = [call EXCEPT !.pc = "raised", !.raised = RaiseLast(call.last_exception)]
    /\ NotCall

NextRetry ==
    \/ RetryAttempt
    \/ RetryExhausted

\* One call of a wrapped function.
SpecRetry == InitRetry /\ [][NextRetry]_vars

(***************************************************************************)
(* save() and reset() cut short.  save() writes the index file in place    *)
(* (write_index), then opens the id-list file for writing, which truncates *)
(* it, and dumps the list; reset() removes the index file, then the        *)
(* id-list file.  A call is cut short by an exception (the process lives   *)
(* on and the caller sees the error) or by the death of the process.       *)
(***************************************************************************)
SavePoints == {"write_index", "open_meta", "dump_meta"}

\* The file pair a save() of (ix, ids) leaves when it stops at point `at`,
\* having started on the pair (fi, fm).
SaveFilesUpTo(at, ix, ids, fi, fm) ==
    IF at = "write_index" THEN <<TornIndexFile, fm>>
    ELSE IF at = "open_meta" THEN <<File(ix), fm>>
    ELSE <<File(ix), TornMetaFile>>

DoSaveInterrupted(at, crash) ==
    /\ proc = "up"
    /\ diskIndex' = SaveFilesUpTo(at, index, chunk_ids, diskIndex, diskMeta)[1]
    /\ diskMeta' = SaveFilesUpTo(at, index, chunk_ids, diskIndex, diskMeta)[2]
    /\ proc' = IF crash THEN "down" ELSE "up"
    /\ ret' = Ret("save", <<>>, IF crash THEN "crash" ELSE "IOError", <<>>, <<>>)
    /\ UNCHANGED <<api, kind, index, chunk_ids, chunk_ids_set, store, lastSaved, threads>>

\* reset() when the process dies between the two os.remove calls.
DoResetInterrupted ==
    /\ proc = "up"
    /\ lock = "free"
    /\ index' = EmptyIndex(EmbeddingDim(kind))
    /\ chunk_ids' = <<>>
    /\ chunk_ids_set' = {}
    /\ diskIndex' = NoIndexFile
    /\ proc' = "down"
    /\ ret' = Ret("reset", <<>>, "crash", <<>>, <<>>)
    /\ UNCHANGED <<api, kind, diskMeta, store, lastSaved, threads>>

Next ==
    \/ DoConstruct
    \/ \E b \in AddBatches, d \in Dims : DoAdd(b, d)
    \/ DoSave
    \/ DoReset
    \/ \E q \in Queries, k \in 1..MaxTopK : DoSearch(q, k)

\* One manager driven through its public operations.
Spec == Init /\ [][Next]_vars

NextIngest ==
    \/ \E b \in Batches : DoIngest(b)
    \/ \E b \in Batches : DoSaveChunks(b)
    \/ DoReset
    \/ DoConstruct

\* The ingestion pipeline over the store and one index.
SpecIngest == Init /\ [][NextIngest]_vars

(***************************************************************************)
(* add() and search() as threads of one process take them, a step per      *)
(* statement that another thread can tell apart.  add() holds the lock     *)
(* from its first statement to its return; search() holds it around        *)
(* index.search only.                                                      *)
(***************************************************************************)
\* Queries the searching thread asks: halfway between the two embeddings.
ConcQueries == {q \in Queries : q.v.dir = 1}

\* Mutant: index.search runs without the lock.
SearchLookupUnlocked(l) == TRUE

\* `with self._lock:` around index.search.
SearchCanLookup(l) == l = "free"

\* with self._lock; the filter loop; `if not new_chunks: return 0`.
AddAcquire(batch, dim) ==
    /\ proc = "up"
    /\ adder.pc = "idle"
    /\ lock = "free"
    /\ ntotal(index) + Len(batch) <= MaxConcVec
    /\ lock' = "adder"
    /\ LET new == NewChunks(batch, chunk_ids_set)
       IN  adder' = [AdderIdle EXCEPT !.pc = IF new = <<>> THEN "release" ELSE "index",
                                      !.batch = batch, !.dim = dim, !.new = new,
                                      !.pre = chunk_ids_set]
    /\ UNCHANGED <<api, kind, index, chunk_ids, chunk_ids_set, diskIndex, diskMeta, store,
                   ret, proc, lastSaved, searcher>>

\* normalize_L2 and self.index.add(new_embeddings).
AddIndex ==
    /\ adder.pc = "index"
    /\ IF adder.dim # index.d
       THEN /\ adder' = [adder EXCEPT !.pc = "release", !.err = "AssertionError"]
            /\ UNCHANGED index
       ELSE /\ index' = IndexAdd(index, [i \in 1..Len(adder.new) |->
                                           normalize_L2(Embed(adder.new[i].chunk_id))])
            /\ adder' = [adder EXCEPT !.pc = "append", !.i = 1]
    /\ UNCHANGED <<api, kind, chunk_ids, chunk_ids_set, diskIndex, diskMeta, store,
                   ret, proc, lastSaved, lock, searcher>>

\* One round of the tracking loop: chunk_ids.append, _chunk_ids_set.add.
AddAppend ==
    /\ adder.pc = "append"
    /\ chunk_ids' = Append(chunk_ids, adder.new[adder.i].chunk_id)
    /\ chunk_ids_set' = chunk_ids_set \cup {adder.new[adder.i].chunk_id}
    /\ adder' = IF adder.i = Len(adder.new)
                THEN [adder EXCEPT !.pc = "release", !.out = Len(adder.new)]
                ELSE [adder EXCEPT !.i = @ + 1]
    /\ UNCHANGED <<api, kind, index, diskIndex, diskMeta, store, ret, proc, lastSaved,
                   lock, searcher>>

\* add() returns or raises; the lock is released.
AddRelease ==
    /\ adder.pc = "release"
    /\ lock' = "free"
    /\ ret' = Ret("add", <<>>, adder.err, adder.out, {})
    /\ adder' = AdderIdle
    /\ UNCHANGED <<api, kind, index, chunk_ids, chunk_ids_set, diskIndex, diskMeta, store,
                   proc, lastSaved, searcher>>

\* search() up to the lock: FaissManager checks the dimension, the image
\* manager does not.
SearchStart(q, top_k) ==
    /\ proc = "up"
    /\ searcher.pc = "idle"
    /\ searcher' = IF kind = "text" /\ q.dim # index.d
                   THEN [SearcherIdle EXCEPT !.pc = "return", !.q = q, !.top_k = top_k,
                                             !.err = "ValueError"]
                   ELSE [SearcherIdle EXCEPT !.pc = "lookup", !.q = q, !.top_k = top_k]
    /\ UNCHANGED <<api, kind, index, chunk_ids, chunk_ids_set, diskIndex, diskMeta, store,
                   ret, proc, lastSaved, lock, adder>>

\* with self._lock: distances, indices = self.index.search(query, top_k).
\* snapIds and snapN keep the id list and ntotal of the state searched.
SearchLookup ==
    /\ searcher.pc = "lookup"
    /\ SearchCanLookup(lock)
    /\ LET r == FaissIndexSearch(index, searcher.q, searcher.top_k)
       IN  searcher' = IF r.err # "none"
                       THEN [searcher EXCEPT !.pc = "return", !.err = r.err]
                       ELSE [searcher EXCEPT !.pc = "map", !.hits = r.hits, !.i = 1,
                                             !.snapIds = chunk_ids,
                                             !.snapN = ntotal(index)]
    /\ UNCHANGED <<api, kind, index, chunk_ids, chunk_ids_set, diskIndex, diskMeta, store,
                   ret, proc, lastSaved, lock, adder>>

\* The test of one round of the mapping loop, on the id list as it is now:
\* `if 0 <= idx < len(self.chunk_ids)` (and dist <= DISTANCE_THRESHOLD).
SearchMapTest ==
    /\ searcher.pc = "map"
    /\ LET h == searcher.hits[searcher.i]
           keep == IF kind = "text" THEN ValidText(h, chunk_ids)
                   ELSE ValidImage(h, chunk_ids)
       IN  searcher' = IF keep THEN [searcher EXCEPT !.pc = "read"]
                       ELSE IF searcher.i = Len(searcher.hits)
                       THEN [searcher EXCEPT !.pc = "return"]
                       ELSE [searcher EXCEPT !.i = @ + 1]
    /\ UNCHANGED <<api, kind, index, chunk_ids, chunk_ids_set, diskIndex, diskMeta, store,
                   ret, proc, lastSaved, lock, adder>>

\* The body of that round: self.chunk_ids[idx], read from the id list as it
\* is now; an index past its end raises IndexError.
SearchMapRead ==
    /\ searcher.pc = "read"
    /\ LET h == searcher.hits[searcher.i]
       IN  searcher' =
             IF h.idx >= Len(chunk_ids)
             THEN [searcher EXCEPT !.pc = "return", !.err = "IndexError", !.results = <<>>]
             ELSE [searcher EXCEPT
                     !.results = Append(@, [chunk_id |-> chunk_ids[h.idx + 1],
                                            distance |-> h.dist, idx |-> h.idx]),
                     !.pc = IF searcher.i = Len(searcher.hits) THEN "return" ELSE "map",
                     !.i = IF searcher.i = Len(searcher.hits) THEN @ ELSE @ + 1]
    /\ UNCHANGED <<api, kind, index, chunk_ids, chunk_ids_set, diskIndex, diskMeta, store,
                   ret, proc, lastSaved, lock, adder>>

\* search() returns its results or raises.
SearchReturn ==
    /\ searcher.pc = "return"
    /\ ret' = Ret("search", <<>>, searcher.err,
                  [i \in 1..Len(searcher.results) |->
                     [chunk_id |-> searcher.results[i].chunk_id,
                      distance |-> searcher.results[i].distance]],
                  <<>>)
    /\ searcher' = SearcherIdle
    /\ UNCHANGED <<api, kind, index, chunk_ids, chunk_ids_set, diskIndex, diskMeta, store,
                   proc, lastSaved, lock, adder>>

NextCrash ==
    \/ DoConstruct
    \/ \E b \in AddBatches : DoAdd(b, EmbeddingDim(kind))
    \/ DoSave
    \/ DoReset
    \/ \E at \in SavePoints, crash \in BOOLEAN : DoSaveInterrupted(at, crash)
    \/ DoResetInterrupted

\* One manager whose save() and reset() calls can be cut short, and the
\* restarts that follow.
SpecCrash == Init /\ [][NextCrash]_vars

NextConc ==
    \/ \E b \in AddBatches, d \in Dims : AddAcquire(b, d)
    \/ AddIndex
    \/ AddAppend
    \/ AddRelease
    \/ \E q \in ConcQueries, k \in 1..MaxTopK : SearchStart(q, k)
    \/ SearchLookup
    \/ SearchMapTest
    \/ SearchMapRead
    \/ SearchReturn
    \/ DoReset

\* One manager shared by a thread that adds, a thread that searches and
\* resets.
SpecConc == Init /\ [][NextConc]_vars

NextServer ==
    \/ \E ft \in FileTypes : \E b \in Extracted(ft) : DoHandleIngest(ft, b)
    \/ \E ft \in FileTypes : \E b \in Extracted(ft) : \E j \in 1..Len(b) :
          DoHandleIngestRaising(ft, b, j)
    \/ DoSave
    \/ DoConstruct
    \/ \E q \in Queries, k \in 1..MaxTopK : DoSearch(q, k)

\* The server: uploads, queries on the long-lived manager, shutdown (save)
\* and restart (construct).
SpecServer == Init /\ [][NextServer]_vars

NextQuery ==
    \/ DoQuery
    \/ DoStreamQuery

\* The query system asked one question, by query() or by stream_query().
SpecQuery == InitQuery /\ [][NextQuery]_vars

NextStore ==
    \/ \E b \in StoreBatches : DoSaveChunks(b)
    \/ \E b \in StoreBatches : \E j \in 1..Len(b) : DoSaveChunksRaising(b, j)
    \/ \E id \in StoreIds : DoGetChunk(id)

\* The metadata store on its own.
SpecStore == Init /\ [][NextStore]_vars

(***************************************************************************)
(* Properties of one manager (Spec).                                       *)
(***************************************************************************)

\* C1: in every state reached by constructions/loads, adds, saves and resets,
\* the id list is as long as the number of vectors the index holds.
IndexAlignment == Len(chunk_ids) = ntotal(index)

\* An add that landed on top of a snapshot saved earlier and filled the index.
IndexAlignmentWitness ==
    /\ ret.op = "add" /\ ret.err = "none" /\ ret.out >= 1
    /\ ntotal(index) = MaxVec
    /\ diskMeta.st = "ok" /\ Len(diskMeta.data) >= 1

\* C2: no chunk id occurs twice in the id list, also when a batch repeats an
\* id, and add returns the number of distinct new ids of the batch.
AddDedup ==
    /\ NoDuplicates(chunk_ids)
    /\ (ret.op = "add" /\ ret.err = "none")
          => ret.out = Cardinality(Range(Ids(ret.in.batch)) \ ret.pre)

DimensionEnforcement ==
    (ret.op = "search" /\ ret.in.q.dim # index.d)
        => /\ ret.err \in {"ValueError", "AssertionError"}
           /\ ret.out = <<>>
           /\ ret.pre = mem

\* A wrong-dimension search on an image index that holds vectors.
DimensionEnforcementWitness ==
    /\ ret.op = "search" /\ kind = "image" /\ ntotal(index) >= 1
    /\ ret.err = "AssertionError"
    /\ ret.in.q.dim # index.d

(***************************************************************************)
(* Properties of ingestion and the store (SpecIngest).                     *)
(***************************************************************************)
\* Every chunk of batch b has a row in st, and every chunk of b that goes to
\* this index is in the id list saved in the files fi, fm.
AlreadyIngested(b, st, fi, fm) ==
    /\ Range(Ids(b)) \subseteq DOMAIN st
    /\ \/ Routed(kind, b) = <<>>
       \/ /\ fi.st = "ok" /\ fm.st = "ok"
          /\ Range(Ids(Routed(kind, b))) \subseteq Range(fm.data)

\* C3: ingesting a batch that is already ingested makes save_chunks and add
\* return 0 and leaves the rows, the saved index and the saved id list as
\* they were; and right after any ingest its batch is already ingested.
IdempotentReingest ==
    ret.op = "ingest" =>
        /\ AlreadyIngested(ret.in, ret.pre[1], ret.pre[2], ret.pre[3])
              => /\ ret.out.saved = 0 /\ ret.out.added = 0
                 /\ DOMAIN store = DOMAIN ret.pre[1]
                 /\ \A id \in DOMAIN store : store[id] = ret.pre[1][id]
                 /\ diskIndex.data = ret.pre[2].data
                 /\ diskMeta.data = ret.pre[3].data
                 /\ ntotal(index) = ntotal(ret.pre[2].data)
                 /\ chunk_ids = ret.pre[3].data
        /\ ret.err = "none" => AlreadyIngested(ret.in, store, diskIndex, diskMeta)

\* A second ingest of a two-chunk batch whose chunks went to this index.
IdempotentReingestWitness ==
    /\ ret.op = "ingest"
    /\ AlreadyIngested(ret.in, ret.pre[1], ret.pre[2], ret.pre[3])
    /\ Len(Routed(kind, ret.in)) >= 1 /\ Len(ret.in) >= 2
    /\ ntotal(index) >= 1

\* The first chunk of batch b that carries the id.
FirstWithId(b, id) == b[CHOOSE i \in 1..Len(b) :
                          b[i].chunk_id = id /\ \A j \in 1..(i - 1) : b[j].chunk_id # id]

\* C10: save_chunks returns the number of distinct batch ids that had no row,
\* stores for each of them the first chunk of the batch with that id, and
\* leaves every row that was there with its payload.
SaveChunksInsertOrIgnore ==
    ret.op = "save_chunks" =>
        LET before == ret.pre
            fresh == Range(Ids(ret.in)) \ DOMAIN before
        IN  /\ ret.out = Cardinality(fresh)
            /\ DOMAIN store = DOMAIN before \cup Range(Ids(ret.in))
            /\ \A id \in DOMAIN before : store[id] = before[id]
            /\ \A id \in fresh : store[id] = FirstWithId(ret.in, id)

\* A batch of one new chunk and one chunk whose id had a row with another
\* payload.
SaveChunksInsertOrIgnoreWitness ==
    /\ ret.op = "save_chunks" /\ ret.out = 1 /\ Len(ret.in) = 2
    /\ \E i \in 1..2 : /\ ret.in[i].chunk_id \in DOMAIN ret.pre
                       /\ ret.pre[ret.in[i].chunk_id] # ret.in[i]

(***************************************************************************)
(* Properties of calls cut short (SpecCrash).                              *)
(***************************************************************************)
\* C5: after a save() that raised or was cut off by a crash, the two files
\* are still the pair the last completed save left, and loading them gives
\* an index as long as its id list.
SaveFailureKeepsSnapshot ==
    (ret.op = "save" /\ ret.err # "none") =>
        /\ <<diskIndex, diskMeta>> = lastSaved
        /\ LET m == Construct(kind, diskIndex, diskMeta)
           IN  m.err = "none" /\ Len(m.chunk_ids) = ntotal(m.index)

\* C9: a constructor that finds exactly one of the two files ends in an
\* error, and a constructor that starts empty found neither file.
HalfPairIsFatal ==
    ret.op = "construct" =>
        /\ (ret.in.index_file # ret.in.meta_file) => ret.err # "none"
        /\ (ret.err = "none" /\ ret.out = "empty")
              => (~ret.in.index_file /\ ~ret.in.meta_file)

(***************************************************************************)
(* Properties of concurrent calls (SpecConc).                              *)
(***************************************************************************)
\* C6: whenever no add holds the lock, index, id list and membership set
\* agree; the state a search looks up holds as many ids as vectors, so it
\* has all of an add or none of it; and an add that raised left index, id
\* list and membership set as it found them.
AddAtomic ==
    /\ lock = "free" => /\ Len(chunk_ids) = ntotal(index)
                        /\ chunk_ids_set = Range(chunk_ids)
    /\ searcher.pc \in {"map", "read"} => Len(searcher.snapIds) = searcher.snapN
    /\ (adder.pc = "release" /\ adder.err # "none")
          => /\ Len(chunk_ids) = ntotal(index)
             /\ chunk_ids_set = adder.pre
             /\ chunk_ids_set = Range(chunk_ids)

\* A search waiting at the lock while an add has put its vectors into the
\* index and not yet all of their ids into the id list.
AddAtomicWitness ==
    /\ adder.pc = "append" /\ Len(adder.new) >= 2 /\ adder.i = 2
    /\ ntotal(index) > Len(chunk_ids)
    /\ searcher.pc = "lookup"

\* C7: every chunk_id a search has put into its results is the id that stood
\* at the matched position in the state it looked up, and the mapping never
\* fails.
SearchMapsSearchedState ==
    /\ searcher.err # "IndexError"
    /\ \A i \in 1..Len(searcher.results) :
          LET r == searcher.results[i]
          IN  /\ r.idx < Len(searcher.snapIds)
              /\ r.chunk_id = searcher.snapIds[r.idx + 1]

(***************************************************************************)
(* Properties of the metadata store (SpecStore).                           *)
(***************************************************************************)
SameStore(s1, s2) == DOMAIN s1 = DOMAIN s2 /\ \A id \in DOMAIN s1 : s1[id] = s2[id]

\* C11: a save_chunks that raised left the table with exactly the rows it
\* had before the call, and the caller got the error.
SaveChunksAllOrNothing ==
    (ret.op = "save_chunks" /\ ret.err # "none") => SameStore(store, ret.pre)

\* A call that raised after it had inserted a new row in its transaction.
SaveChunksAllOrNothingWitness ==
    /\ ret.op = "save_chunks" /\ ret.err = "Error" /\ ret.out >= 1
    /\ ret.in[1].chunk_id \notin DOMAIN store

\* == of two Python values: None with None, numbers by value, strings by
\* content.
PyEq(x, y) ==
    \/ x.t = "null" /\ y.t = "null"
    \/ x.t \in {"int", "real"} /\ y.t \in {"int", "real"} /\ x.n = y.n
    \/ x.t = "text" /\ y.t = "text" /\ x.s = y.s

SameChunk(c, d) ==
    /\ c.chunk_id = d.chunk_id /\ c.text = d.text
    /\ c.source_type = d.source_type /\ c.source_file = d.source_file
    /\ PyEq(c.page_number, d.page_number) /\ PyEq(c.timestamp, d.timestamp)

\* get_chunk gives back every chunk of the batch just saved.
ReadsBack(batch, st) ==
    \A i \in 1..Len(batch) :
        /\ get_chunk(st, batch[i].chunk_id).found
        /\ SameChunk(get_chunk(st, batch[i].chunk_id).chunk, batch[i])

\* C12 as stated: after save_chunks(batch) on a store that held none of the
\* batch's ids, get_chunk gives back every chunk of the batch field by field,
\* and get_chunk of an id without a row gives None.
StoreRoundTripAnyBatch ==
    /\ (ret.op = "save_chunks" /\ ret.err = "none"
          /\ Range(Ids(ret.in)) \cap DOMAIN ret.pre = {})
          => ReadsBack(ret.in, store)
    /\ \A id \in StoreIds \ DOMAIN store : ~get_chunk(store, id).found

\* C12, amended: the same for a batch whose chunk ids are pairwise distinct.
StoreRoundTrip ==
    /\ (ret.op = "save_chunks" /\ ret.err = "none"
          /\ Range(Ids(ret.in)) \cap DOMAIN ret.pre = {}
          /\ NoDuplicates(Ids(ret.in)))
          => ReadsBack(ret.in, store)
    /\ \A id \in StoreIds \ DOMAIN store : ~get_chunk(store, id).found
    /\ ret.op = "get_chunk" => (ret.out.found <=> ret.in \in DOMAIN store)

\* A video frame (path in page_number, int timestamp) and an audio segment
\* saved together into a store that held neither.
StoreRoundTripWitness ==
    /\ ret.op = "save_chunks" /\ ret.err = "none" /\ ret.out = 2
    /\ Range(Ids(ret.in)) = {"b", "c"}
    /\ store["b"].timestamp.t = "real"

(***************************************************************************)
(* Properties of the server (SpecServer).                                  *)
(***************************************************************************)
\* C13: every chunk id in the id list of the manager in memory or in the
\* saved id list has a row in the store (no rows are deleted here).
StoreBeforeIndex ==
    /\ Range(chunk_ids) \subseteq DOMAIN store
    /\ diskMeta.st = "ok" => Range(diskMeta.data) \subseteq DOMAIN store

\* An upload whose chunks went into the long-lived index and its snapshot.
StoreBeforeIndexWitness ==
    /\ ret.op = "handle_ingest" /\ ret.err = "none" /\ ret.out.added >= 2
    /\ diskMeta.st = "ok" /\ Len(diskMeta.data) >= 2 /\ Len(chunk_ids) >= 2

\* C14: after an upload, the long-lived manager of each index that ingest()
\* added the upload's chunks to holds those chunks, so a query started then
\* searches them.
IngestVisible ==
    (ret.op = "handle_ingest" /\ ret.err = "none")
        => Range(Ids(Routed(kind, ret.in.batch))) \subseteq Range(chunk_ids)

(***************************************************************************)
(* Properties of queries (SpecQuery).                                      *)
(***************************************************************************)
\* C15: with no hit from either index, query() answers the sentinel with
\* confidence 0 and no sources and does not call the model; stream_query()
\* gives confidence 0, no sources and the sentinel as its only token.
NoKnowledgeFallback ==
    /\ (ret.op = "query" /\ ret.in.text_results \o ret.in.image_results = <<>>)
          => /\ ret.err = "none"
             /\ ret.out.answer = SENTINEL
             /\ ret.out.confidence = 0
             /\ ret.out.sources = <<>>
             /\ ~ret.out.llm_called
    /\ (ret.op = "stream_query" /\ ret.in.text_results \o ret.in.image_results = <<>>)
          => /\ ret.err = "none"
             /\ ret.out.tokens = <<SENTINEL>>
             /\ ret.out.confidence = 0
             /\ ret.out.sources = <<>>
             /\ ~ret.out.llm_called

\* A query without hits on a store that has rows.
NoKnowledgeFallbackWitness ==
    /\ ret.op = "query" /\ ret.in.text_results \o ret.in.image_results = <<>>
    /\ Multimodal(ret.in.question) /\ DOMAIN store # {}

\* C16: when query() selected candidates and none of the selected ids has a
\* row in the store, it answers the sentinel with confidence 0 and no
\* sources and does not call the model.
UnresolvedFallback ==
    (/\ ret.op = "query"
     /\ ret.out.chunk_ids # <<>>
     /\ Range(ret.out.chunk_ids) \cap DOMAIN store = {})
        => /\ ret.err = "none"
           /\ ret.out.answer = SENTINEL
           /\ ret.out.confidence = 0
           /\ ret.out.sources = <<>>
           /\ ~ret.out.llm_called

\* C17: whenever the answer query() returns is the sentinel, the confidence
\* it returns is 0 and the source list it returns is empty.
SentinelZeroes ==
    (ret.op = "query" /\ ret.err = "none" /\ ret.out.answer = SENTINEL)
        => (ret.out.confidence = 0 /\ ret.out.sources = <<>>)

\* C18: for the non-empty list of distances query() or stream_query()
\* selected, the confidence returned (in hundredths of a percent) is between
\* 0 and 100 percent, is 0 when the average distance is 2 or more, and is
\* the score of every source.
ConfidenceBounds ==
    (/\ ret.op \in {"query", "stream_query"}
     /\ ret.err = "none"
     /\ ret.out.distances # <<>>)
        => /\ 0 <= ret.out.confidence /\ ret.out.confidence <= 10000
           /\ Sum(ret.out.distances) >= 2 * Len(ret.out.distances)
                 => ret.out.confidence = 0
           /\ \A i \in DOMAIN ret.out.sources :
                 ret.out.sources[i].score = ret.out.confidence

\* Two resolved hits whose average distance is above 2, and their sources.
ConfidenceBoundsWitness ==
    /\ ret.op = "query" /\ ret.err = "none"
    /\ Len(ret.out.distances) = 2
    /\ Sum(ret.out.distances) > 2 * Len(ret.out.distances)
    /\ Len(ret.out.sources) = 2
    /\ ret.out.confidence = 0

\* Whether the word occurs in the text, case-insensitively, for the texts of
\* the stored chunks.
Occurs(word, text) == <<word, text>> \in {<<"alpha", "alpha beta">>}

\* The number of question words in the text of the candidate's chunk; 0 for
\* an id without a row.
LexicalScore(question, id, st) ==
    IF id \in DOMAIN st THEN Cardinality({w \in question : Occurs(w, st[id].text)})
    ELSE 0

\* C19: the candidates of query() are ranked descending by (lexical score,
\* -distance): a candidate is before another only if its text has more of
\* the question's words, or as many and its distance is not larger.
KeywordRanking ==
    (ret.op = "query" /\ ret.err = "none")
        => \A i, j \in DOMAIN ret.out.ranked :
              i < j =>
                LET si == LexicalScore(ret.in.question, ret.out.ranked[i].chunk_id, store)
                    sj == LexicalScore(ret.in.question, ret.out.ranked[j].chunk_id, store)
                IN  \/ si > sj
                    \/ si = sj /\ ret.out.ranked[i].distance <= ret.out.ranked[j].distance

\* The rank of the first occurrence of the id in the ranked candidates.
FirstRank(ranked, id) ==
    CHOOSE i \in DOMAIN ranked :
        /\ ranked[i].chunk_id = id
        /\ \A j \in 1..(i - 1) : ranked[j].chunk_id # id

\* C20: the chunk ids query() selects for the context hold each id at most
\* once, each with the distance of its best-ranked occurrence, and are at
\* most top_k, also when both indexes returned the same id.
DedupWalk ==
    (ret.op = "query" /\ ret.err = "none")
        => /\ NoDuplicates(ret.out.chunk_ids)
           /\ Len(ret.out.chunk_ids) <= ret.in.top_k
           /\ \A i \in DOMAIN ret.out.chunk_ids :
                 ret.out.distances[i] =
                     ret.out.ranked[FirstRank(ret.out.ranked, ret.out.chunk_ids[i])].distance

\* The selected ids that have a row, in the order of the selection.
Resolved(ids, st) == SelectSeq(ids, LAMBDA id : id \in DOMAIN st)

\* The source files of the chunks, each once, in order of first occurrence.
RECURSIVE FirstFiles(_, _, _)
FirstFiles(ids, st, seen) ==
    IF ids = <<>> THEN <<>>
    ELSE LET f == st[ids[1]].source_file
         IN  IF f \in seen THEN FirstFiles(Tail(ids), st, seen)
             ELSE <<f>> \o FirstFiles(Tail(ids), st, seen \cup {f})

\* C21: when some but not all of the selected ids have a row, query() and
\* stream_query() do not raise, the contexts are those of the resolved
\* chunks in the order of the selection, and the sources are made of the
\* same chunks.
PartialResolution ==
    (/\ ret.op \in {"query", "stream_query"}
     /\ Range(ret.out.chunk_ids) \cap DOMAIN store # {}
     /\ Range(ret.out.chunk_ids) \ DOMAIN store # {})
        => LET ids == Resolved(ret.out.chunk_ids, store)
           IN  /\ ret.err = "none"
               /\ Len(ret.out.contexts) = Len(ids)
               /\ \A i \in DOMAIN ids :
                     /\ ret.out.contexts[i].source_file = store[ids[i]].source_file
                     /\ ret.out.contexts[i].page_number = store[ids[i]].page_number
                     /\ ret.out.contexts[i].timestamp = store[ids[i]].timestamp
               /\ [i \in DOMAIN ret.out.sources |-> ret.out.sources[i].source_file]
                     = FirstFiles(ids, store, {})

\* A streaming query that selected an id without a row before one with a row.
PartialResolutionWitness ==
    /\ ret.op = "stream_query" /\ ret.err = "none"
    /\ Len(ret.out.chunk_ids) = 2
    /\ ret.out.chunk_ids[1] \notin DOMAIN store
    /\ ret.out.chunk_ids[2] \in DOMAIN store
    /\ Len(ret.out.contexts) = 1 /\ Len(ret.out.sources) = 1

(***************************************************************************)
(* Properties of a streaming request (SpecStream).                         *)
(***************************************************************************)
\* C22: when stream_query has returned, the token generator has not been
\* advanced and the backend has not been called; the generator is advanced
\* only after the metadata event, and every token event comes after the
\* metadata event, which is the first event.
MetadataBeforeTokens ==
    /\ stream.pc = "response"
          => (stream.gen.pc = "unstarted" /\ ~stream.gen.llm_called /\ stream.events = <<>>)
    /\ stream.gen.pc # "unstarted"
          => (stream.events # <<>> /\ stream.events[1].type = "metadata")
    /\ \A i \in DOMAIN stream.events :
          stream.events[i].type = "token" => (i > 1 /\ stream.events[1].type = "metadata")

\* A backend token emitted right after the metadata event.
MetadataBeforeTokensWitness ==
    /\ Len(stream.events) >= 2
    /\ stream.events[2].type = "token"
    /\ stream.gen.src = "llm" /\ stream.gen.llm_called
    /\ stream.metadata.sources # <<>>

\* The tokens emitted so far, in order.
RECURSIVE EmittedTokens(_)
EmittedTokens(events) ==
    IF events = <<>> THEN <<>>
    ELSE (IF events[1].type = "token" THEN <<events[1].data>> ELSE <<>>)
         \o EmittedTokens(Tail(events))

\* C23: once the backend has raised, the tokens end with the error marker,
\* which occurs once; the generator yields nothing after it, and no
\* exception has left the generator.
BackendErrorIsMarker ==
    stream.gen.raised
        => LET tokens == EmittedTokens(stream.events)
           IN  /\ tokens # <<>>
               /\ tokens[Len(tokens)] = ERROR_MARKER
               /\ \A i \in 1..(Len(tokens) - 1) : tokens[i] # ERROR_MARKER
               /\ GeneratorNext(stream.gen).stop
               /\ GeneratorNext(stream.gen).err = "none"
               /\ \A i \in DOMAIN stream.events : stream.events[i].type = "error"
                     => stream.events[i].data # "Exception"

\* The backend raised after a token and the stream was consumed to [DONE].
BackendErrorIsMarkerWitness ==
    /\ stream.gen.raised
    /\ Len(EmittedTokens(stream.events)) >= 2
    /\ stream.pc = "end"
    /\ stream.events[Len(stream.events)].type = "done"

\* The concatenation of the tokens.
RECURSIVE Concat(_)
Concat(tokens) == IF tokens = <<>> THEN "" ELSE tokens[1] \o Concat(Tail(tokens))

\* The assistant messages stored for the chat.
AssistantMessages(messages) == SelectSeq(messages, LAMBDA m : m.role = "assistant")

\* C30: the events of a stream are one metadata event, then the token
\* events, then at most one of [DONE] and [ERROR], after which nothing
\* follows; a stream consumed to its end has exactly one of the two; [DONE]
\* is emitted only after one assistant message was stored, whose content is
\* the concatenation of the emitted tokens, and no token is emitted after
\* the message was stored.
StreamOrder ==
    LET ev == stream.events
        n == Len(ev)
        last == {i \in DOMAIN ev : ev[i].type \in {"done", "error"}}
        saved == AssistantMessages(stream.messages)
    IN  /\ \A i \in DOMAIN ev : (ev[i].type = "metadata") <=> (i = 1)
        /\ last \subseteq {n}
        /\ \A i \in DOMAIN ev : i \notin last /\ i > 1 => ev[i].type = "token"
        /\ stream.pc = "end" => (n >= 2 /\ last = {n})
        /\ Len(saved) <= 1
        /\ saved # <<>> => saved[1].content = Concat(EmittedTokens(ev))
        /\ (n >= 1 /\ ev[n].type = "done") => Len(saved) = 1
        /\ (n >= 1 /\ ev[n].type = "error") => saved = <<>>

\* A stream of two tokens consumed to [DONE], the answer stored.
StreamOrderWitness ==
    /\ stream.pc = "end"
    /\ Len(stream.events) = 4
    /\ stream.events[4].type = "done"
    /\ AssistantMessages(stream.messages) = <<[role |-> "assistant", content |-> "xy"]>>

(***************************************************************************)
(* Properties of one manager, continued (Spec).                            *)
(***************************************************************************)
\* C24: right after reset() the index holds no vector, the id list and the
\* membership set are empty and neither file exists; a manager constructed
\* on the same paths is empty, and an add of a chunk whose id was indexed
\* before the reset is accepted.
ResetIsFullWipe ==
    (ret.op = "reset" /\ ret.err = "none")
        => /\ ntotal(index) = 0
           /\ chunk_ids = <<>>
           /\ chunk_ids_set = {}
           /\ ~Exists(diskIndex) /\ ~Exists(diskMeta)
           /\ LET m == Construct(kind, diskIndex, diskMeta)
              IN  /\ m.err = "none"
                  /\ ntotal(m.index) = 0 /\ m.chunk_ids = <<>> /\ m.chunk_ids_set = {}
                  /\ \A c \in {x \in Chunks : x.chunk_id \in ret.pre} :
                        /\ Add(index, chunk_ids, chunk_ids_set, <<c>>,
                               EmbeddingDim(kind)).chunk_ids = <<c.chunk_id>>
                        /\ Add(m.index, m.chunk_ids, m.chunk_ids_set, <<c>>,
                               EmbeddingDim(kind)).chunk_ids = <<c.chunk_id>>

\* A reset of a manager that held vectors and had both files.
ResetIsFullWipeWitness ==
    /\ ret.op = "reset" /\ ret.err = "none"
    /\ Cardinality(ret.pre) >= 2
    /\ ret.in.index_file /\ ret.in.meta_file

(***************************************************************************)
(* Properties of Retriever.retrieve (SpecRetrieve).                        *)
(***************************************************************************)
\* C25: retrieve accepts, walking the candidates by ascending distance, at
\* most 2 chunks per source_type, each source_type counted by itself, skips
\* the ids missing from the lookup and stops at top_k accepted chunks.
DiversityCapBySourceType ==
    ret.op = "retrieve"
        => LET expected ==
                   IF ret.in.text_results \o ret.in.image_results = <<>> THEN <<>>
                   ELSE DiversityWalk(SortByDistance(ret.in.text_results \o ret.in.image_results),
                                      <<>>, <<>>, ret.in.top_k, chunk_lookup,
                                      [id \in DOMAIN chunk_lookup |->
                                          SourceType(chunk_lookup[id])])
           IN  [i \in DOMAIN ret.out |-> ret.out[i].chunk_id]
                   = [i \in DOMAIN expected |-> expected[i].chunk_id]

(***************************************************************************)
(* Properties of the session histories (SpecSessions).                     *)
(***************************************************************************)
\* The last n entries of a list.
LastOf(seq, n) == [i \in 1..Min(n, Len(seq)) |-> seq[Len(seq) - Min(n, Len(seq)) + i]]

\* C26: whenever no call of append_session_message is inside the lock,
\* each session's history has at most 10 entries and is the last 10
\* messages appended to that session, in the order of appending; a session
\* nothing was appended to has no history.
SessionHistoryBound ==
    sessions.lock = 0
        => /\ \A sid \in DOMAIN sessions.chat_sessions :
                 /\ Len(sessions.chat_sessions[sid]) <= 10
                 /\ sessions.chat_sessions[sid] = LastOf(sessions.appended[sid], 10)
           /\ \A sid \in SessionIds \ DOMAIN sessions.chat_sessions :
                 sessions.appended[sid] = <<>>

\* Twelve messages appended to one session, some by each request, and one
\* to the other session.
SessionHistoryBoundWitness ==
    /\ sessions.lock = 0
    /\ Len(sessions.appended["s1"]) >= 11
    /\ Len(sessions.appended["s2"]) >= 1
    /\ Len(sessions.chat_sessions["s1"]) = 10
    /\ sessions.chat_sessions["s1"][1].content > 1

(***************************************************************************)
(* Properties of retry and async_retry (SpecRetry).                        *)
(***************************************************************************)
\* C27: for every max_attempts n >= 0 the function is invoked at most n
\* times; the wrapper returns the result of the first invocation that does
\* not raise, every invocation before it having raised a listed exception;
\* it raises an exception that is not listed from the invocation that
\* raised it; and otherwise, after n invocations that raised listed
\* exceptions, it raises the exception of the last of them.
RetryAtMostN ==
    LET listedBefore(k) == \A i \in 1..(k - 1) : call.outcomes[i] = "listed"
    IN  /\ call.invoked <= call.max_attempts
        /\ call.pc = "returned"
              => /\ call.outcomes[call.invoked] = "ok"
                 /\ call.result = call.invoked
                 /\ listedBefore(call.invoked)
        /\ call.pc = "raised"
              => \/ /\ call.raised = Exc("other", call.invoked)
                    /\ call.outcomes[call.invoked] = "other"
                    /\ listedBefore(call.invoked)
                 \/ /\ call.invoked = call.max_attempts
                    /\ listedBefore(call.max_attempts + 1)
                    /\ call.raised = Exc("listed", call.max_attempts)

(***************************************************************************)
(* Properties of the server, continued (SpecServer, which has no reset).   *)
(***************************************************************************)
\* C28: every step that leaves a snapshot in the index's files, whichever
\* manager instance wrote it, leaves one that holds every chunk id the
\* files held before the step.
NoLostVectors ==
    [][(diskMeta.st = "ok" /\ diskMeta'.st = "ok")
          => Range(diskMeta.data) \subseteq Range(diskMeta'.data)]_vars

(***************************************************************************)
(* Properties of queries, continued (SpecQuery).                           *)
(***************************************************************************)
\* C29: on the same search results, store and top_k, stream_query()
\* selects the chunk ids query() selected and reports the same sources and
\* the same confidence.
QueryStreamAgree ==
    (ret.op = "query" /\ ret.err = "none")
        => LET s == StreamQuery(ret.in.text_results, ret.in.image_results, ret.in.top_k,
                                store, ret.in.completion)
           IN  /\ s.chunk_ids = ret.out.chunk_ids
               /\ s.sources = ret.out.sources
               /\ s.confidence = ret.out.confidence

====
